---- MODULE Spec2Model ----
(***************************************************************************)
(* A model of src/src/extract/job_extractor.py: the URL role classifiers,  *)
(* the job-posting admission filter and the run_extraction pipeline        *)
(* (feed admission, page and listing admission, enrichment merge).         *)
(*                                                                         *)
(* Python strings on which the code does substring, suffix, split and      *)
(* lower-case operations are sequences of one-character strings.  The      *)
(* pipeline's state holds URLs, hosts and titles as string literals;       *)
(* Chars gives the characters of a literal and Str the literal of a        *)
(* character sequence.                                                     *)
(***************************************************************************)
EXTENDS Integers, Sequences, FiniteSets, TLC

VARIABLES
    call,        \* the classifier or filter called on its own: [fn, url, title]
    ret,         \* its outcome: "" (not called yet), "True", "False", "ValueError"
    cfg,         \* run_extraction's arguments: [links, fetch_rss, fetch_job_pages, max_job_pages]
    web,         \* what the sites may serve: [live, feeds, pages, listings]
    pc,          \* position in run_extraction
    idx,         \* index of the current element of the phase's loop
    probe,       \* index of the feed path fetch_rss_jobs requests next (phase 1)
    pending,     \* fetch_rss_jobs's result still to pass to add_job (phase 1)
    job_links,   \* the listing's detail links still to expand (phase 2)
    hubs,        \* the career hubs among the links (phase 1)
    job_page_urls, \* the job-page candidates among the links
    to_fetch,    \* the first max_job_pages of them, which phase 2 fetches
    to_enrich,   \* the enrichment list, computed once (phase 3)
    all_jobs,    \* the corpus
    seen_keys,   \* the (source_site, application_url) pairs admitted
    now,         \* the clock datetime.utcnow() reads, as the number of its readings
    ev,          \* what the last step handed to add_job or the merge: [op, job, known]
    fetches,     \* the number of requests for HTML pages made so far (phases 2 and 3)
    expanded,    \* the number of detail links expanded for the current listing
    served,      \* a feed path of the current hub has answered with a well-formed feed
    last_req     \* the URL of the last request when no time.sleep has followed it, else ""

vars == <<call, ret, cfg, web, pc, idx, probe, pending, job_links, hubs,
          job_page_urls, to_fetch, to_enrich, all_jobs, seen_keys, now, ev,
          fetches, expanded, served, last_req>>

pipeVars == <<cfg, web, pc, idx, probe, pending, job_links, hubs, job_page_urls, to_fetch,
              to_enrich, all_jobs, seen_keys, now, ev, fetches, expanded, served, last_req>>

-----------------------------------------------------------------------------
(* Bounds of the generated inputs. *)

\* path segments of a URL given to the classifiers
MaxSegs == 3
\* path segments of a URL given to the admission filter
MaxFilterSegs == 2

-----------------------------------------------------------------------------
(* Strings. *)

CharTable ==
     ("" :> <<>>)
  @@ ("https" :> <<"h", "t", "t", "p", "s">>)
  @@ ("careers" :> <<"c", "a", "r", "e", "e", "r", "s">>)
  @@ ("jobs" :> <<"j", "o", "b", "s">>)
  @@ ("hr-trends" :> <<"h", "r", "-", "t", "r", "e", "n", "d", "s">>)
  @@ ("SearchJobs" :> <<"S", "e", "a", "r", "c", "h", "J", "o", "b", "s">>)
  @@ ("JobDetail" :> <<"J", "o", "b", "D", "e", "t", "a", "i", "l">>)
  @@ ("blog" :> <<"b", "l", "o", "g">>)
  @@ ("blogs" :> <<"b", "l", "o", "g", "s">>)
  @@ ("x" :> <<"x">>)
  @@ ("123" :> <<"1", "2", "3">>)
  @@ ("mycareers" :> <<"m", "y", "c", "a", "r", "e", "e", "r", "s">>)
  @@ ("jobId=7" :> <<"j", "o", "b", "I", "d", "=", "7">>)
  @@ ("q=x" :> <<"q", "=", "x">>)
  @@ ("www.avature.net" :> <<"w", "w", "w", ".", "a", "v", "a", "t", "u", "r", "e", ".", "n", "e", "t">>)
  @@ ("avature.net" :> <<"a", "v", "a", "t", "u", "r", "e", ".", "n", "e", "t">>)
  @@ ("acme.avature.net" :> <<"a", "c", "m", "e", ".", "a", "v", "a", "t", "u", "r", "e", ".", "n", "e", "t">>)
  @@ ("example.com" :> <<"e", "x", "a", "m", "p", "l", "e", ".", "c", "o", "m">>)
  @@ ("jobs.example.com" :> <<"j", "o", "b", "s", ".", "e", "x", "a", "m", "p", "l", "e", ".", "c", "o", "m">>)
  @@ ("[::1" :> <<"[", ":", ":", "1">>)
  @@ ("Engineer" :> <<"E", "n", "g", "i", "n", "e", "e", "r">>)
  @@ ("HR-Trends Weekly" :> <<"H", "R", "-", "T", "r", "e", "n", "d", "s", " ", "W", "e", "e", "k", "l", "y">>)
  @@ ("Untitled" :> <<"U", "n", "t", "i", "t", "l", "e", "d">>)
  @@ ("Job" :> <<"J", "o", "b">>)
  @@ ("Senior Dev" :> <<"S", "e", "n", "i", "o", "r", " ", "D", "e", "v">>)
  @@ ("Hiring blog" :> <<"H", "i", "r", "i", "n", "g", " ", "b", "l", "o", "g">>)
  @@ ("https://acme.avature.net/careers" :> <<"h", "t", "t", "p", "s", ":", "/", "/", "a", "c", "m", "e", ".", "a", "v", "a", "t", "u", "r", "e", ".", "n", "e", "t", "/", "c", "a", "r", "e", "e", "r", "s">>)
  @@ ("https://acme.avature.net/careers/JobDetail/123" :> <<"h", "t", "t", "p", "s", ":", "/", "/", "a", "c", "m", "e", ".", "a", "v", "a", "t", "u", "r", "e", ".", "n", "e", "t", "/", "c", "a", "r", "e", "e", "r", "s", "/", "J", "o", "b", "D", "e", "t", "a", "i", "l", "/", "1", "2", "3">>)
  @@ ("https://acme.avature.net/careers/SearchJobs" :> <<"h", "t", "t", "p", "s", ":", "/", "/", "a", "c", "m", "e", ".", "a", "v", "a", "t", "u", "r", "e", ".", "n", "e", "t", "/", "c", "a", "r", "e", "e", "r", "s", "/", "S", "e", "a", "r", "c", "h", "J", "o", "b", "s">>)
  @@ ("https://acme.avature.net/careers/ApplyJob/123" :> <<"h", "t", "t", "p", "s", ":", "/", "/", "a", "c", "m", "e", ".", "a", "v", "a", "t", "u", "r", "e", ".", "n", "e", "t", "/", "c", "a", "r", "e", "e", "r", "s", "/", "A", "p", "p", "l", "y", "J", "o", "b", "/", "1", "2", "3">>)
  @@ ("https://www.avature.net/blogs/hiring" :> <<"h", "t", "t", "p", "s", ":", "/", "/", "w", "w", "w", ".", "a", "v", "a", "t", "u", "r", "e", ".", "n", "e", "t", "/", "b", "l", "o", "g", "s", "/", "h", "i", "r", "i", "n", "g">>)
  @@ ("https://www.avature.net/about/team" :> <<"h", "t", "t", "p", "s", ":", "/", "/", "w", "w", "w", ".", "a", "v", "a", "t", "u", "r", "e", ".", "n", "e", "t", "/", "a", "b", "o", "u", "t", "/", "t", "e", "a", "m">>)
  @@ ("https://example.com/about/team" :> <<"h", "t", "t", "p", "s", ":", "/", "/", "e", "x", "a", "m", "p", "l", "e", ".", "c", "o", "m", "/", "a", "b", "o", "u", "t", "/", "t", "e", "a", "m">>)
  @@ ("https://jobs.example.com/" :> <<"h", "t", "t", "p", "s", ":", "/", "/", "j", "o", "b", "s", ".", "e", "x", "a", "m", "p", "l", "e", ".", "c", "o", "m", "/">>)
  @@ ("https://[::1/careers" :> <<"h", "t", "t", "p", "s", ":", "/", "/", "[", ":", ":", "1", "/", "c", "a", "r", "e", "e", "r", "s">>)
  @@ ("/careers/ApplyJob/123" :> <<"/", "c", "a", "r", "e", "e", "r", "s", "/", "A", "p", "p", "l", "y", "J", "o", "b", "/", "1", "2", "3">>)
  @@ ("g1" :> <<"g", "1">>)
  @@ ("mailto:apply@acme.com" :> <<"m", "a", "i", "l", "t", "o", ":", "a", "p", "p", "l", "y", "@", "a", "c", "m", "e", ".", "c", "o", "m">>)
  @@ ("/rss" :> <<"/", "r", "s", "s">>)
  @@ ("/careers/rss" :> <<"/", "c", "a", "r", "e", "e", "r", "s", "/", "r", "s", "s">>)
  @@ ("/jobs/rss" :> <<"/", "j", "o", "b", "s", "/", "r", "s", "s">>)
  @@ ("/feed" :> <<"/", "f", "e", "e", "d">>)
  @@ ("/careers/feed" :> <<"/", "c", "a", "r", "e", "e", "r", "s", "/", "f", "e", "e", "d">>)
  @@ ("/jobs/feed" :> <<"/", "j", "o", "b", "s", "/", "f", "e", "e", "d">>)
  @@ ("https://acme.avature.net/careers/JobDetail/1" :> <<"h", "t", "t", "p", "s", ":", "/", "/", "a", "c", "m", "e", ".", "a", "v", "a", "t", "u", "r", "e", ".", "n", "e", "t", "/", "c", "a", "r", "e", "e", "r", "s", "/", "J", "o", "b", "D", "e", "t", "a", "i", "l", "/", "1">>)
  @@ ("https://acme.avature.net/careers/JobDetail/2" :> <<"h", "t", "t", "p", "s", ":", "/", "/", "a", "c", "m", "e", ".", "a", "v", "a", "t", "u", "r", "e", ".", "n", "e", "t", "/", "c", "a", "r", "e", "e", "r", "s", "/", "J", "o", "b", "D", "e", "t", "a", "i", "l", "/", "2">>)
  @@ ("https://acme.avature.net/careers/JobDetail/3" :> <<"h", "t", "t", "p", "s", ":", "/", "/", "a", "c", "m", "e", ".", "a", "v", "a", "t", "u", "r", "e", ".", "n", "e", "t", "/", "c", "a", "r", "e", "e", "r", "s", "/", "J", "o", "b", "D", "e", "t", "a", "i", "l", "/", "3">>)
  @@ ("https://acme.avature.net/careers/JobDetail/4" :> <<"h", "t", "t", "p", "s", ":", "/", "/", "a", "c", "m", "e", ".", "a", "v", "a", "t", "u", "r", "e", ".", "n", "e", "t", "/", "c", "a", "r", "e", "e", "r", "s", "/", "J", "o", "b", "D", "e", "t", "a", "i", "l", "/", "4">>)
  @@ ("https://acme.avature.net/careers/JobDetail/5" :> <<"h", "t", "t", "p", "s", ":", "/", "/", "a", "c", "m", "e", ".", "a", "v", "a", "t", "u", "r", "e", ".", "n", "e", "t", "/", "c", "a", "r", "e", "e", "r", "s", "/", "J", "o", "b", "D", "e", "t", "a", "i", "l", "/", "5">>)
  @@ ("https://acme.avature.net/careers/JobDetail/6" :> <<"h", "t", "t", "p", "s", ":", "/", "/", "a", "c", "m", "e", ".", "a", "v", "a", "t", "u", "r", "e", ".", "n", "e", "t", "/", "c", "a", "r", "e", "e", "r", "s", "/", "J", "o", "b", "D", "e", "t", "a", "i", "l", "/", "6">>)
  @@ ("https://acme.avature.net/careers/JobDetail/7" :> <<"h", "t", "t", "p", "s", ":", "/", "/", "a", "c", "m", "e", ".", "a", "v", "a", "t", "u", "r", "e", ".", "n", "e", "t", "/", "c", "a", "r", "e", "e", "r", "s", "/", "J", "o", "b", "D", "e", "t", "a", "i", "l", "/", "7">>)
  @@ ("https://acme.avature.net/careers/JobDetail/8" :> <<"h", "t", "t", "p", "s", ":", "/", "/", "a", "c", "m", "e", ".", "a", "v", "a", "t", "u", "r", "e", ".", "n", "e", "t", "/", "c", "a", "r", "e", "e", "r", "s", "/", "J", "o", "b", "D", "e", "t", "a", "i", "l", "/", "8">>)
  @@ ("https://acme.avature.net/careers/JobDetail/9" :> <<"h", "t", "t", "p", "s", ":", "/", "/", "a", "c", "m", "e", ".", "a", "v", "a", "t", "u", "r", "e", ".", "n", "e", "t", "/", "c", "a", "r", "e", "e", "r", "s", "/", "J", "o", "b", "D", "e", "t", "a", "i", "l", "/", "9">>)
  @@ ("https://acme.avature.net/careers/JobDetail/10" :> <<"h", "t", "t", "p", "s", ":", "/", "/", "a", "c", "m", "e", ".", "a", "v", "a", "t", "u", "r", "e", ".", "n", "e", "t", "/", "c", "a", "r", "e", "e", "r", "s", "/", "J", "o", "b", "D", "e", "t", "a", "i", "l", "/", "1", "0">>)
  @@ ("https://acme.avature.net/careers/JobDetail/11" :> <<"h", "t", "t", "p", "s", ":", "/", "/", "a", "c", "m", "e", ".", "a", "v", "a", "t", "u", "r", "e", ".", "n", "e", "t", "/", "c", "a", "r", "e", "e", "r", "s", "/", "J", "o", "b", "D", "e", "t", "a", "i", "l", "/", "1", "1">>)
  @@ ("https://acme.avature.net/careers/JobDetail/12" :> <<"h", "t", "t", "p", "s", ":", "/", "/", "a", "c", "m", "e", ".", "a", "v", "a", "t", "u", "r", "e", ".", "n", "e", "t", "/", "c", "a", "r", "e", "e", "r", "s", "/", "J", "o", "b", "D", "e", "t", "a", "i", "l", "/", "1", "2">>)
  @@ ("https://acme.avature.net/careers/JobDetail/13" :> <<"h", "t", "t", "p", "s", ":", "/", "/", "a", "c", "m", "e", ".", "a", "v", "a", "t", "u", "r", "e", ".", "n", "e", "t", "/", "c", "a", "r", "e", "e", "r", "s", "/", "J", "o", "b", "D", "e", "t", "a", "i", "l", "/", "1", "3">>)
  @@ ("https://acme.avature.net/careers/JobDetail/14" :> <<"h", "t", "t", "p", "s", ":", "/", "/", "a", "c", "m", "e", ".", "a", "v", "a", "t", "u", "r", "e", ".", "n", "e", "t", "/", "c", "a", "r", "e", "e", "r", "s", "/", "J", "o", "b", "D", "e", "t", "a", "i", "l", "/", "1", "4">>)
  @@ ("https://acme.avature.net/careers/JobDetail/15" :> <<"h", "t", "t", "p", "s", ":", "/", "/", "a", "c", "m", "e", ".", "a", "v", "a", "t", "u", "r", "e", ".", "n", "e", "t", "/", "c", "a", "r", "e", "e", "r", "s", "/", "J", "o", "b", "D", "e", "t", "a", "i", "l", "/", "1", "5">>)
  @@ ("https://acme.avature.net/careers/JobDetail/16" :> <<"h", "t", "t", "p", "s", ":", "/", "/", "a", "c", "m", "e", ".", "a", "v", "a", "t", "u", "r", "e", ".", "n", "e", "t", "/", "c", "a", "r", "e", "e", "r", "s", "/", "J", "o", "b", "D", "e", "t", "a", "i", "l", "/", "1", "6">>)
  @@ ("https://acme.avature.net/careers/JobDetail/17" :> <<"h", "t", "t", "p", "s", ":", "/", "/", "a", "c", "m", "e", ".", "a", "v", "a", "t", "u", "r", "e", ".", "n", "e", "t", "/", "c", "a", "r", "e", "e", "r", "s", "/", "J", "o", "b", "D", "e", "t", "a", "i", "l", "/", "1", "7">>)
  @@ ("https://acme.avature.net/careers/JobDetail/18" :> <<"h", "t", "t", "p", "s", ":", "/", "/", "a", "c", "m", "e", ".", "a", "v", "a", "t", "u", "r", "e", ".", "n", "e", "t", "/", "c", "a", "r", "e", "e", "r", "s", "/", "J", "o", "b", "D", "e", "t", "a", "i", "l", "/", "1", "8">>)
  @@ ("https://acme.avature.net/careers/JobDetail/19" :> <<"h", "t", "t", "p", "s", ":", "/", "/", "a", "c", "m", "e", ".", "a", "v", "a", "t", "u", "r", "e", ".", "n", "e", "t", "/", "c", "a", "r", "e", "e", "r", "s", "/", "J", "o", "b", "D", "e", "t", "a", "i", "l", "/", "1", "9">>)
  @@ ("https://acme.avature.net/careers/JobDetail/20" :> <<"h", "t", "t", "p", "s", ":", "/", "/", "a", "c", "m", "e", ".", "a", "v", "a", "t", "u", "r", "e", ".", "n", "e", "t", "/", "c", "a", "r", "e", "e", "r", "s", "/", "J", "o", "b", "D", "e", "t", "a", "i", "l", "/", "2", "0">>)
  @@ ("https://acme.avature.net/careers/JobDetail/21" :> <<"h", "t", "t", "p", "s", ":", "/", "/", "a", "c", "m", "e", ".", "a", "v", "a", "t", "u", "r", "e", ".", "n", "e", "t", "/", "c", "a", "r", "e", "e", "r", "s", "/", "J", "o", "b", "D", "e", "t", "a", "i", "l", "/", "2", "1">>)
  @@ ("https://acme.avature.net/careers/JobDetail/22" :> <<"h", "t", "t", "p", "s", ":", "/", "/", "a", "c", "m", "e", ".", "a", "v", "a", "t", "u", "r", "e", ".", "n", "e", "t", "/", "c", "a", "r", "e", "e", "r", "s", "/", "J", "o", "b", "D", "e", "t", "a", "i", "l", "/", "2", "2">>)
  @@ ("https://acme.avature.net/careers/JobDetail/23" :> <<"h", "t", "t", "p", "s", ":", "/", "/", "a", "c", "m", "e", ".", "a", "v", "a", "t", "u", "r", "e", ".", "n", "e", "t", "/", "c", "a", "r", "e", "e", "r", "s", "/", "J", "o", "b", "D", "e", "t", "a", "i", "l", "/", "2", "3">>)
  @@ ("https://acme.avature.net/careers/JobDetail/24" :> <<"h", "t", "t", "p", "s", ":", "/", "/", "a", "c", "m", "e", ".", "a", "v", "a", "t", "u", "r", "e", ".", "n", "e", "t", "/", "c", "a", "r", "e", "e", "r", "s", "/", "J", "o", "b", "D", "e", "t", "a", "i", "l", "/", "2", "4">>)
  @@ ("https://acme.avature.net/careers/JobDetail/25" :> <<"h", "t", "t", "p", "s", ":", "/", "/", "a", "c", "m", "e", ".", "a", "v", "a", "t", "u", "r", "e", ".", "n", "e", "t", "/", "c", "a", "r", "e", "e", "r", "s", "/", "J", "o", "b", "D", "e", "t", "a", "i", "l", "/", "2", "5">>)
  @@ ("https://acme.avature.net/careers/JobDetail/26" :> <<"h", "t", "t", "p", "s", ":", "/", "/", "a", "c", "m", "e", ".", "a", "v", "a", "t", "u", "r", "e", ".", "n", "e", "t", "/", "c", "a", "r", "e", "e", "r", "s", "/", "J", "o", "b", "D", "e", "t", "a", "i", "l", "/", "2", "6">>)
  @@ ("https://acme.avature.net/careers/JobDetail/27" :> <<"h", "t", "t", "p", "s", ":", "/", "/", "a", "c", "m", "e", ".", "a", "v", "a", "t", "u", "r", "e", ".", "n", "e", "t", "/", "c", "a", "r", "e", "e", "r", "s", "/", "J", "o", "b", "D", "e", "t", "a", "i", "l", "/", "2", "7">>)
  @@ ("https://acme.avature.net/careers/JobDetail/28" :> <<"h", "t", "t", "p", "s", ":", "/", "/", "a", "c", "m", "e", ".", "a", "v", "a", "t", "u", "r", "e", ".", "n", "e", "t", "/", "c", "a", "r", "e", "e", "r", "s", "/", "J", "o", "b", "D", "e", "t", "a", "i", "l", "/", "2", "8">>)
  @@ ("https://acme.avature.net/careers/JobDetail/29" :> <<"h", "t", "t", "p", "s", ":", "/", "/", "a", "c", "m", "e", ".", "a", "v", "a", "t", "u", "r", "e", ".", "n", "e", "t", "/", "c", "a", "r", "e", "e", "r", "s", "/", "J", "o", "b", "D", "e", "t", "a", "i", "l", "/", "2", "9">>)
  @@ ("https://acme.avature.net/careers/JobDetail/30" :> <<"h", "t", "t", "p", "s", ":", "/", "/", "a", "c", "m", "e", ".", "a", "v", "a", "t", "u", "r", "e", ".", "n", "e", "t", "/", "c", "a", "r", "e", "e", "r", "s", "/", "J", "o", "b", "D", "e", "t", "a", "i", "l", "/", "3", "0">>)
  @@ ("https://acme.avature.net/careers/JobDetail/31" :> <<"h", "t", "t", "p", "s", ":", "/", "/", "a", "c", "m", "e", ".", "a", "v", "a", "t", "u", "r", "e", ".", "n", "e", "t", "/", "c", "a", "r", "e", "e", "r", "s", "/", "J", "o", "b", "D", "e", "t", "a", "i", "l", "/", "3", "1">>)
  @@ ("https://acme.avature.net/careers/JobDetail/32" :> <<"h", "t", "t", "p", "s", ":", "/", "/", "a", "c", "m", "e", ".", "a", "v", "a", "t", "u", "r", "e", ".", "n", "e", "t", "/", "c", "a", "r", "e", "e", "r", "s", "/", "J", "o", "b", "D", "e", "t", "a", "i", "l", "/", "3", "2">>)
  @@ ("https://acme.avature.net/careers/JobDetail/33" :> <<"h", "t", "t", "p", "s", ":", "/", "/", "a", "c", "m", "e", ".", "a", "v", "a", "t", "u", "r", "e", ".", "n", "e", "t", "/", "c", "a", "r", "e", "e", "r", "s", "/", "J", "o", "b", "D", "e", "t", "a", "i", "l", "/", "3", "3">>)
  @@ ("https://acme.avature.net/careers/JobDetail/34" :> <<"h", "t", "t", "p", "s", ":", "/", "/", "a", "c", "m", "e", ".", "a", "v", "a", "t", "u", "r", "e", ".", "n", "e", "t", "/", "c", "a", "r", "e", "e", "r", "s", "/", "J", "o", "b", "D", "e", "t", "a", "i", "l", "/", "3", "4">>)
  @@ ("https://acme.avature.net/careers/JobDetail/35" :> <<"h", "t", "t", "p", "s", ":", "/", "/", "a", "c", "m", "e", ".", "a", "v", "a", "t", "u", "r", "e", ".", "n", "e", "t", "/", "c", "a", "r", "e", "e", "r", "s", "/", "J", "o", "b", "D", "e", "t", "a", "i", "l", "/", "3", "5">>)
  @@ ("https://acme.avature.net/careers/JobDetail/36" :> <<"h", "t", "t", "p", "s", ":", "/", "/", "a", "c", "m", "e", ".", "a", "v", "a", "t", "u", "r", "e", ".", "n", "e", "t", "/", "c", "a", "r", "e", "e", "r", "s", "/", "J", "o", "b", "D", "e", "t", "a", "i", "l", "/", "3", "6">>)
  @@ ("https://acme.avature.net/careers/JobDetail/37" :> <<"h", "t", "t", "p", "s", ":", "/", "/", "a", "c", "m", "e", ".", "a", "v", "a", "t", "u", "r", "e", ".", "n", "e", "t", "/", "c", "a", "r", "e", "e", "r", "s", "/", "J", "o", "b", "D", "e", "t", "a", "i", "l", "/", "3", "7">>)
  @@ ("https://acme.avature.net/careers/JobDetail/38" :> <<"h", "t", "t", "p", "s", ":", "/", "/", "a", "c", "m", "e", ".", "a", "v", "a", "t", "u", "r", "e", ".", "n", "e", "t", "/", "c", "a", "r", "e", "e", "r", "s", "/", "J", "o", "b", "D", "e", "t", "a", "i", "l", "/", "3", "8">>)
  @@ ("https://acme.avature.net/careers/JobDetail/39" :> <<"h", "t", "t", "p", "s", ":", "/", "/", "a", "c", "m", "e", ".", "a", "v", "a", "t", "u", "r", "e", ".", "n", "e", "t", "/", "c", "a", "r", "e", "e", "r", "s", "/", "J", "o", "b", "D", "e", "t", "a", "i", "l", "/", "3", "9">>)
  @@ ("https://acme.avature.net/careers/JobDetail/40" :> <<"h", "t", "t", "p", "s", ":", "/", "/", "a", "c", "m", "e", ".", "a", "v", "a", "t", "u", "r", "e", ".", "n", "e", "t", "/", "c", "a", "r", "e", "e", "r", "s", "/", "J", "o", "b", "D", "e", "t", "a", "i", "l", "/", "4", "0">>)
  @@ ("https://acme.avature.net/careers/JobDetail/41" :> <<"h", "t", "t", "p", "s", ":", "/", "/", "a", "c", "m", "e", ".", "a", "v", "a", "t", "u", "r", "e", ".", "n", "e", "t", "/", "c", "a", "r", "e", "e", "r", "s", "/", "J", "o", "b", "D", "e", "t", "a", "i", "l", "/", "4", "1">>)
  @@ ("https://acme.avature.net/careers/JobDetail/42" :> <<"h", "t", "t", "p", "s", ":", "/", "/", "a", "c", "m", "e", ".", "a", "v", "a", "t", "u", "r", "e", ".", "n", "e", "t", "/", "c", "a", "r", "e", "e", "r", "s", "/", "J", "o", "b", "D", "e", "t", "a", "i", "l", "/", "4", "2">>)
  @@ ("https://acme.avature.net/careers/JobDetail/43" :> <<"h", "t", "t", "p", "s", ":", "/", "/", "a", "c", "m", "e", ".", "a", "v", "a", "t", "u", "r", "e", ".", "n", "e", "t", "/", "c", "a", "r", "e", "e", "r", "s", "/", "J", "o", "b", "D", "e", "t", "a", "i", "l", "/", "4", "3">>)
  @@ ("https://acme.avature.net/careers/JobDetail/44" :> <<"h", "t", "t", "p", "s", ":", "/", "/", "a", "c", "m", "e", ".", "a", "v", "a", "t", "u", "r", "e", ".", "n", "e", "t", "/", "c", "a", "r", "e", "e", "r", "s", "/", "J", "o", "b", "D", "e", "t", "a", "i", "l", "/", "4", "4">>)
  @@ ("https://acme.avature.net/careers/JobDetail/45" :> <<"h", "t", "t", "p", "s", ":", "/", "/", "a", "c", "m", "e", ".", "a", "v", "a", "t", "u", "r", "e", ".", "n", "e", "t", "/", "c", "a", "r", "e", "e", "r", "s", "/", "J", "o", "b", "D", "e", "t", "a", "i", "l", "/", "4", "5">>)
  @@ ("https://acme.avature.net/careers/JobDetail/46" :> <<"h", "t", "t", "p", "s", ":", "/", "/", "a", "c", "m", "e", ".", "a", "v", "a", "t", "u", "r", "e", ".", "n", "e", "t", "/", "c", "a", "r", "e", "e", "r", "s", "/", "J", "o", "b", "D", "e", "t", "a", "i", "l", "/", "4", "6">>)
  @@ ("https://acme.avature.net/careers/JobDetail/47" :> <<"h", "t", "t", "p", "s", ":", "/", "/", "a", "c", "m", "e", ".", "a", "v", "a", "t", "u", "r", "e", ".", "n", "e", "t", "/", "c", "a", "r", "e", "e", "r", "s", "/", "J", "o", "b", "D", "e", "t", "a", "i", "l", "/", "4", "7">>)
  @@ ("https://acme.avature.net/careers/JobDetail/48" :> <<"h", "t", "t", "p", "s", ":", "/", "/", "a", "c", "m", "e", ".", "a", "v", "a", "t", "u", "r", "e", ".", "n", "e", "t", "/", "c", "a", "r", "e", "e", "r", "s", "/", "J", "o", "b", "D", "e", "t", "a", "i", "l", "/", "4", "8">>)
  @@ ("https://acme.avature.net/careers/JobDetail/49" :> <<"h", "t", "t", "p", "s", ":", "/", "/", "a", "c", "m", "e", ".", "a", "v", "a", "t", "u", "r", "e", ".", "n", "e", "t", "/", "c", "a", "r", "e", "e", "r", "s", "/", "J", "o", "b", "D", "e", "t", "a", "i", "l", "/", "4", "9">>)
  @@ ("https://acme.avature.net/careers/JobDetail/50" :> <<"h", "t", "t", "p", "s", ":", "/", "/", "a", "c", "m", "e", ".", "a", "v", "a", "t", "u", "r", "e", ".", "n", "e", "t", "/", "c", "a", "r", "e", "e", "r", "s", "/", "J", "o", "b", "D", "e", "t", "a", "i", "l", "/", "5", "0">>)
  @@ ("https://acme.avature.net/careers/JobDetail/51" :> <<"h", "t", "t", "p", "s", ":", "/", "/", "a", "c", "m", "e", ".", "a", "v", "a", "t", "u", "r", "e", ".", "n", "e", "t", "/", "c", "a", "r", "e", "e", "r", "s", "/", "J", "o", "b", "D", "e", "t", "a", "i", "l", "/", "5", "1">>)
  @@ ("https://acme.avature.net/careers/JobDetail/52" :> <<"h", "t", "t", "p", "s", ":", "/", "/", "a", "c", "m", "e", ".", "a", "v", "a", "t", "u", "r", "e", ".", "n", "e", "t", "/", "c", "a", "r", "e", "e", "r", "s", "/", "J", "o", "b", "D", "e", "t", "a", "i", "l", "/", "5", "2">>)
  @@ ("https://acme.avature.net/careers/JobDetail/53" :> <<"h", "t", "t", "p", "s", ":", "/", "/", "a", "c", "m", "e", ".", "a", "v", "a", "t", "u", "r", "e", ".", "n", "e", "t", "/", "c", "a", "r", "e", "e", "r", "s", "/", "J", "o", "b", "D", "e", "t", "a", "i", "l", "/", "5", "3">>)
  @@ ("https://acme.avature.net/careers/JobDetail/54" :> <<"h", "t", "t", "p", "s", ":", "/", "/", "a", "c", "m", "e", ".", "a", "v", "a", "t", "u", "r", "e", ".", "n", "e", "t", "/", "c", "a", "r", "e", "e", "r", "s", "/", "J", "o", "b", "D", "e", "t", "a", "i", "l", "/", "5", "4">>)
  @@ ("https://acme.avature.net/careers/JobDetail/55" :> <<"h", "t", "t", "p", "s", ":", "/", "/", "a", "c", "m", "e", ".", "a", "v", "a", "t", "u", "r", "e", ".", "n", "e", "t", "/", "c", "a", "r", "e", "e", "r", "s", "/", "J", "o", "b", "D", "e", "t", "a", "i", "l", "/", "5", "5">>)
  @@ ("https://acme.avature.net/careers/JobDetail/56" :> <<"h", "t", "t", "p", "s", ":", "/", "/", "a", "c", "m", "e", ".", "a", "v", "a", "t", "u", "r", "e", ".", "n", "e", "t", "/", "c", "a", "r", "e", "e", "r", "s", "/", "J", "o", "b", "D", "e", "t", "a", "i", "l", "/", "5", "6">>)
  @@ ("https://acme.avature.net/careers/JobDetail/57" :> <<"h", "t", "t", "p", "s", ":", "/", "/", "a", "c", "m", "e", ".", "a", "v", "a", "t", "u", "r", "e", ".", "n", "e", "t", "/", "c", "a", "r", "e", "e", "r", "s", "/", "J", "o", "b", "D", "e", "t", "a", "i", "l", "/", "5", "7">>)
  @@ ("https://acme.avature.net/careers/JobDetail/58" :> <<"h", "t", "t", "p", "s", ":", "/", "/", "a", "c", "m", "e", ".", "a", "v", "a", "t", "u", "r", "e", ".", "n", "e", "t", "/", "c", "a", "r", "e", "e", "r", "s", "/", "J", "o", "b", "D", "e", "t", "a", "i", "l", "/", "5", "8">>)
  @@ ("https://acme.avature.net/careers/JobDetail/59" :> <<"h", "t", "t", "p", "s", ":", "/", "/", "a", "c", "m", "e", ".", "a", "v", "a", "t", "u", "r", "e", ".", "n", "e", "t", "/", "c", "a", "r", "e", "e", "r", "s", "/", "J", "o", "b", "D", "e", "t", "a", "i", "l", "/", "5", "9">>)
  @@ ("https://acme.avature.net/careers/JobDetail/60" :> <<"h", "t", "t", "p", "s", ":", "/", "/", "a", "c", "m", "e", ".", "a", "v", "a", "t", "u", "r", "e", ".", "n", "e", "t", "/", "c", "a", "r", "e", "e", "r", "s", "/", "J", "o", "b", "D", "e", "t", "a", "i", "l", "/", "6", "0">>)
  @@ ("https://acme.avature.net/careers/JobDetail/61" :> <<"h", "t", "t", "p", "s", ":", "/", "/", "a", "c", "m", "e", ".", "a", "v", "a", "t", "u", "r", "e", ".", "n", "e", "t", "/", "c", "a", "r", "e", "e", "r", "s", "/", "J", "o", "b", "D", "e", "t", "a", "i", "l", "/", "6", "1">>)
  @@ ("https://acme.avature.net/careers/JobDetail/62" :> <<"h", "t", "t", "p", "s", ":", "/", "/", "a", "c", "m", "e", ".", "a", "v", "a", "t", "u", "r", "e", ".", "n", "e", "t", "/", "c", "a", "r", "e", "e", "r", "s", "/", "J", "o", "b", "D", "e", "t", "a", "i", "l", "/", "6", "2">>)
  @@ ("https://acme.avature.net/careers/JobDetail/63" :> <<"h", "t", "t", "p", "s", ":", "/", "/", "a", "c", "m", "e", ".", "a", "v", "a", "t", "u", "r", "e", ".", "n", "e", "t", "/", "c", "a", "r", "e", "e", "r", "s", "/", "J", "o", "b", "D", "e", "t", "a", "i", "l", "/", "6", "3">>)
  @@ ("https://acme.avature.net/careers/JobDetail/64" :> <<"h", "t", "t", "p", "s", ":", "/", "/", "a", "c", "m", "e", ".", "a", "v", "a", "t", "u", "r", "e", ".", "n", "e", "t", "/", "c", "a", "r", "e", "e", "r", "s", "/", "J", "o", "b", "D", "e", "t", "a", "i", "l", "/", "6", "4">>)
  @@ ("https://acme.avature.net/careers/JobDetail/65" :> <<"h", "t", "t", "p", "s", ":", "/", "/", "a", "c", "m", "e", ".", "a", "v", "a", "t", "u", "r", "e", ".", "n", "e", "t", "/", "c", "a", "r", "e", "e", "r", "s", "/", "J", "o", "b", "D", "e", "t", "a", "i", "l", "/", "6", "5">>)
  @@ ("https://acme.avature.net/careers/JobDetail/66" :> <<"h", "t", "t", "p", "s", ":", "/", "/", "a", "c", "m", "e", ".", "a", "v", "a", "t", "u", "r", "e", ".", "n", "e", "t", "/", "c", "a", "r", "e", "e", "r", "s", "/", "J", "o", "b", "D", "e", "t", "a", "i", "l", "/", "6", "6">>)
  @@ ("https://acme.avature.net/careers/JobDetail/67" :> <<"h", "t", "t", "p", "s", ":", "/", "/", "a", "c", "m", "e", ".", "a", "v", "a", "t", "u", "r", "e", ".", "n", "e", "t", "/", "c", "a", "r", "e", "e", "r", "s", "/", "J", "o", "b", "D", "e", "t", "a", "i", "l", "/", "6", "7">>)
  @@ ("https://acme.avature.net/careers/JobDetail/68" :> <<"h", "t", "t", "p", "s", ":", "/", "/", "a", "c", "m", "e", ".", "a", "v", "a", "t", "u", "r", "e", ".", "n", "e", "t", "/", "c", "a", "r", "e", "e", "r", "s", "/", "J", "o", "b", "D", "e", "t", "a", "i", "l", "/", "6", "8">>)
  @@ ("https://acme.avature.net/careers/JobDetail/69" :> <<"h", "t", "t", "p", "s", ":", "/", "/", "a", "c", "m", "e", ".", "a", "v", "a", "t", "u", "r", "e", ".", "n", "e", "t", "/", "c", "a", "r", "e", "e", "r", "s", "/", "J", "o", "b", "D", "e", "t", "a", "i", "l", "/", "6", "9">>)
  @@ ("https://acme.avature.net/careers/JobDetail/70" :> <<"h", "t", "t", "p", "s", ":", "/", "/", "a", "c", "m", "e", ".", "a", "v", "a", "t", "u", "r", "e", ".", "n", "e", "t", "/", "c", "a", "r", "e", "e", "r", "s", "/", "J", "o", "b", "D", "e", "t", "a", "i", "l", "/", "7", "0">>)
  @@ ("https://acme.avature.net/careers/JobDetail/71" :> <<"h", "t", "t", "p", "s", ":", "/", "/", "a", "c", "m", "e", ".", "a", "v", "a", "t", "u", "r", "e", ".", "n", "e", "t", "/", "c", "a", "r", "e", "e", "r", "s", "/", "J", "o", "b", "D", "e", "t", "a", "i", "l", "/", "7", "1">>)
  @@ ("https://acme.avature.net/careers/JobDetail/72" :> <<"h", "t", "t", "p", "s", ":", "/", "/", "a", "c", "m", "e", ".", "a", "v", "a", "t", "u", "r", "e", ".", "n", "e", "t", "/", "c", "a", "r", "e", "e", "r", "s", "/", "J", "o", "b", "D", "e", "t", "a", "i", "l", "/", "7", "2">>)
  @@ ("https://acme.avature.net/careers/JobDetail/73" :> <<"h", "t", "t", "p", "s", ":", "/", "/", "a", "c", "m", "e", ".", "a", "v", "a", "t", "u", "r", "e", ".", "n", "e", "t", "/", "c", "a", "r", "e", "e", "r", "s", "/", "J", "o", "b", "D", "e", "t", "a", "i", "l", "/", "7", "3">>)
  @@ ("https://acme.avature.net/careers/JobDetail/74" :> <<"h", "t", "t", "p", "s", ":", "/", "/", "a", "c", "m", "e", ".", "a", "v", "a", "t", "u", "r", "e", ".", "n", "e", "t", "/", "c", "a", "r", "e", "e", "r", "s", "/", "J", "o", "b", "D", "e", "t", "a", "i", "l", "/", "7", "4">>)
  @@ ("https://acme.avature.net/careers/JobDetail/75" :> <<"h", "t", "t", "p", "s", ":", "/", "/", "a", "c", "m", "e", ".", "a", "v", "a", "t", "u", "r", "e", ".", "n", "e", "t", "/", "c", "a", "r", "e", "e", "r", "s", "/", "J", "o", "b", "D", "e", "t", "a", "i", "l", "/", "7", "5">>)
  @@ ("https://acme.avature.net/careers/JobDetail/76" :> <<"h", "t", "t", "p", "s", ":", "/", "/", "a", "c", "m", "e", ".", "a", "v", "a", "t", "u", "r", "e", ".", "n", "e", "t", "/", "c", "a", "r", "e", "e", "r", "s", "/", "J", "o", "b", "D", "e", "t", "a", "i", "l", "/", "7", "6">>)
  @@ ("https://acme.avature.net/careers/JobDetail/77" :> <<"h", "t", "t", "p", "s", ":", "/", "/", "a", "c", "m", "e", ".", "a", "v", "a", "t", "u", "r", "e", ".", "n", "e", "t", "/", "c", "a", "r", "e", "e", "r", "s", "/", "J", "o", "b", "D", "e", "t", "a", "i", "l", "/", "7", "7">>)
  @@ ("https://acme.avature.net/careers/JobDetail/78" :> <<"h", "t", "t", "p", "s", ":", "/", "/", "a", "c", "m", "e", ".", "a", "v", "a", "t", "u", "r", "e", ".", "n", "e", "t", "/", "c", "a", "r", "e", "e", "r", "s", "/", "J", "o", "b", "D", "e", "t", "a", "i", "l", "/", "7", "8">>)
  @@ ("https://acme.avature.net/careers/JobDetail/79" :> <<"h", "t", "t", "p", "s", ":", "/", "/", "a", "c", "m", "e", ".", "a", "v", "a", "t", "u", "r", "e", ".", "n", "e", "t", "/", "c", "a", "r", "e", "e", "r", "s", "/", "J", "o", "b", "D", "e", "t", "a", "i", "l", "/", "7", "9">>)
  @@ ("https://acme.avature.net/careers/JobDetail/80" :> <<"h", "t", "t", "p", "s", ":", "/", "/", "a", "c", "m", "e", ".", "a", "v", "a", "t", "u", "r", "e", ".", "n", "e", "t", "/", "c", "a", "r", "e", "e", "r", "s", "/", "J", "o", "b", "D", "e", "t", "a", "i", "l", "/", "8", "0">>)
  @@ ("https://acme.avature.net/careers/JobDetail/81" :> <<"h", "t", "t", "p", "s", ":", "/", "/", "a", "c", "m", "e", ".", "a", "v", "a", "t", "u", "r", "e", ".", "n", "e", "t", "/", "c", "a", "r", "e", "e", "r", "s", "/", "J", "o", "b", "D", "e", "t", "a", "i", "l", "/", "8", "1">>)
  @@ ("https://acme.avature.net/careers/JobDetail/82" :> <<"h", "t", "t", "p", "s", ":", "/", "/", "a", "c", "m", "e", ".", "a", "v", "a", "t", "u", "r", "e", ".", "n", "e", "t", "/", "c", "a", "r", "e", "e", "r", "s", "/", "J", "o", "b", "D", "e", "t", "a", "i", "l", "/", "8", "2">>)
  @@ ("https://acme.avature.net/careers/JobDetail/83" :> <<"h", "t", "t", "p", "s", ":", "/", "/", "a", "c", "m", "e", ".", "a", "v", "a", "t", "u", "r", "e", ".", "n", "e", "t", "/", "c", "a", "r", "e", "e", "r", "s", "/", "J", "o", "b", "D", "e", "t", "a", "i", "l", "/", "8", "3">>)
  @@ ("https://acme.avature.net/careers/JobDetail/84" :> <<"h", "t", "t", "p", "s", ":", "/", "/", "a", "c", "m", "e", ".", "a", "v", "a", "t", "u", "r", "e", ".", "n", "e", "t", "/", "c", "a", "r", "e", "e", "r", "s", "/", "J", "o", "b", "D", "e", "t", "a", "i", "l", "/", "8", "4">>)
  @@ ("https://acme.avature.net/careers/JobDetail/85" :> <<"h", "t", "t", "p", "s", ":", "/", "/", "a", "c", "m", "e", ".", "a", "v", "a", "t", "u", "r", "e", ".", "n", "e", "t", "/", "c", "a", "r", "e", "e", "r", "s", "/", "J", "o", "b", "D", "e", "t", "a", "i", "l", "/", "8", "5">>)
  @@ ("https://acme.avature.net/careers/JobDetail/86" :> <<"h", "t", "t", "p", "s", ":", "/", "/", "a", "c", "m", "e", ".", "a", "v", "a", "t", "u", "r", "e", ".", "n", "e", "t", "/", "c", "a", "r", "e", "e", "r", "s", "/", "J", "o", "b", "D", "e", "t", "a", "i", "l", "/", "8", "6">>)
  @@ ("https://acme.avature.net/careers/JobDetail/87" :> <<"h", "t", "t", "p", "s", ":", "/", "/", "a", "c", "m", "e", ".", "a", "v", "a", "t", "u", "r", "e", ".", "n", "e", "t", "/", "c", "a", "r", "e", "e", "r", "s", "/", "J", "o", "b", "D", "e", "t", "a", "i", "l", "/", "8", "7">>)
  @@ ("https://acme.avature.net/careers/JobDetail/88" :> <<"h", "t", "t", "p", "s", ":", "/", "/", "a", "c", "m", "e", ".", "a", "v", "a", "t", "u", "r", "e", ".", "n", "e", "t", "/", "c", "a", "r", "e", "e", "r", "s", "/", "J", "o", "b", "D", "e", "t", "a", "i", "l", "/", "8", "8">>)
  @@ ("https://acme.avature.net/careers/JobDetail/89" :> <<"h", "t", "t", "p", "s", ":", "/", "/", "a", "c", "m", "e", ".", "a", "v", "a", "t", "u", "r", "e", ".", "n", "e", "t", "/", "c", "a", "r", "e", "e", "r", "s", "/", "J", "o", "b", "D", "e", "t", "a", "i", "l", "/", "8", "9">>)
  @@ ("https://acme.avature.net/careers/JobDetail/90" :> <<"h", "t", "t", "p", "s", ":", "/", "/", "a", "c", "m", "e", ".", "a", "v", "a", "t", "u", "r", "e", ".", "n", "e", "t", "/", "c", "a", "r", "e", "e", "r", "s", "/", "J", "o", "b", "D", "e", "t", "a", "i", "l", "/", "9", "0">>)
  @@ ("https://acme.avature.net/careers/JobDetail/91" :> <<"h", "t", "t", "p", "s", ":", "/", "/", "a", "c", "m", "e", ".", "a", "v", "a", "t", "u", "r", "e", ".", "n", "e", "t", "/", "c", "a", "r", "e", "e", "r", "s", "/", "J", "o", "b", "D", "e", "t", "a", "i", "l", "/", "9", "1">>)
  @@ ("https://acme.avature.net/careers/JobDetail/92" :> <<"h", "t", "t", "p", "s", ":", "/", "/", "a", "c", "m", "e", ".", "a", "v", "a", "t", "u", "r", "e", ".", "n", "e", "t", "/", "c", "a", "r", "e", "e", "r", "s", "/", "J", "o", "b", "D", "e", "t", "a", "i", "l", "/", "9", "2">>)
  @@ ("https://acme.avature.net/careers/JobDetail/93" :> <<"h", "t", "t", "p", "s", ":", "/", "/", "a", "c", "m", "e", ".", "a", "v", "a", "t", "u", "r", "e", ".", "n", "e", "t", "/", "c", "a", "r", "e", "e", "r", "s", "/", "J", "o", "b", "D", "e", "t", "a", "i", "l", "/", "9", "3">>)
  @@ ("https://acme.avature.net/careers/JobDetail/94" :> <<"h", "t", "t", "p", "s", ":", "/", "/", "a", "c", "m", "e", ".", "a", "v", "a", "t", "u", "r", "e", ".", "n", "e", "t", "/", "c", "a", "r", "e", "e", "r", "s", "/", "J", "o", "b", "D", "e", "t", "a", "i", "l", "/", "9", "4">>)
  @@ ("https://acme.avature.net/careers/JobDetail/95" :> <<"h", "t", "t", "p", "s", ":", "/", "/", "a", "c", "m", "e", ".", "a", "v", "a", "t", "u", "r", "e", ".", "n", "e", "t", "/", "c", "a", "r", "e", "e", "r", "s", "/", "J", "o", "b", "D", "e", "t", "a", "i", "l", "/", "9", "5">>)
  @@ ("https://acme.avature.net/careers/JobDetail/96" :> <<"h", "t", "t", "p", "s", ":", "/", "/", "a", "c", "m", "e", ".", "a", "v", "a", "t", "u", "r", "e", ".", "n", "e", "t", "/", "c", "a", "r", "e", "e", "r", "s", "/", "J", "o", "b", "D", "e", "t", "a", "i", "l", "/", "9", "6">>)
  @@ ("https://acme.avature.net/careers/JobDetail/97" :> <<"h", "t", "t", "p", "s", ":", "/", "/", "a", "c", "m", "e", ".", "a", "v", "a", "t", "u", "r", "e", ".", "n", "e", "t", "/", "c", "a", "r", "e", "e", "r", "s", "/", "J", "o", "b", "D", "e", "t", "a", "i", "l", "/", "9", "7">>)
  @@ ("https://acme.avature.net/careers/JobDetail/98" :> <<"h", "t", "t", "p", "s", ":", "/", "/", "a", "c", "m", "e", ".", "a", "v", "a", "t", "u", "r", "e", ".", "n", "e", "t", "/", "c", "a", "r", "e", "e", "r", "s", "/", "J", "o", "b", "D", "e", "t", "a", "i", "l", "/", "9", "8">>)
  @@ ("https://acme.avature.net/careers/JobDetail/99" :> <<"h", "t", "t", "p", "s", ":", "/", "/", "a", "c", "m", "e", ".", "a", "v", "a", "t", "u", "r", "e", ".", "n", "e", "t", "/", "c", "a", "r", "e", "e", "r", "s", "/", "J", "o", "b", "D", "e", "t", "a", "i", "l", "/", "9", "9">>)
  @@ ("https://acme.avature.net/careers/JobDetail/100" :> <<"h", "t", "t", "p", "s", ":", "/", "/", "a", "c", "m", "e", ".", "a", "v", "a", "t", "u", "r", "e", ".", "n", "e", "t", "/", "c", "a", "r", "e", "e", "r", "s", "/", "J", "o", "b", "D", "e", "t", "a", "i", "l", "/", "1", "0", "0">>)
  @@ ("https://acme.avature.net/careers/JobDetail/101" :> <<"h", "t", "t", "p", "s", ":", "/", "/", "a", "c", "m", "e", ".", "a", "v", "a", "t", "u", "r", "e", ".", "n", "e", "t", "/", "c", "a", "r", "e", "e", "r", "s", "/", "J", "o", "b", "D", "e", "t", "a", "i", "l", "/", "1", "0", "1">>)
  @@ ("https://acme.avature.net/careers/JobDetail/102" :> <<"h", "t", "t", "p", "s", ":", "/", "/", "a", "c", "m", "e", ".", "a", "v", "a", "t", "u", "r", "e", ".", "n", "e", "t", "/", "c", "a", "r", "e", "e", "r", "s", "/", "J", "o", "b", "D", "e", "t", "a", "i", "l", "/", "1", "0", "2">>)
  @@ ("https://acme.avature.net/careers/JobDetail/103" :> <<"h", "t", "t", "p", "s", ":", "/", "/", "a", "c", "m", "e", ".", "a", "v", "a", "t", "u", "r", "e", ".", "n", "e", "t", "/", "c", "a", "r", "e", "e", "r", "s", "/", "J", "o", "b", "D", "e", "t", "a", "i", "l", "/", "1", "0", "3">>)
  @@ ("https://acme.avature.net/rss" :> <<"h", "t", "t", "p", "s", ":", "/", "/", "a", "c", "m", "e", ".", "a", "v", "a", "t", "u", "r", "e", ".", "n", "e", "t", "/", "r", "s", "s">>)
  @@ ("https://acme.avature.net/careers/rss" :> <<"h", "t", "t", "p", "s", ":", "/", "/", "a", "c", "m", "e", ".", "a", "v", "a", "t", "u", "r", "e", ".", "n", "e", "t", "/", "c", "a", "r", "e", "e", "r", "s", "/", "r", "s", "s">>)
  @@ ("https://acme.avature.net/jobs/rss" :> <<"h", "t", "t", "p", "s", ":", "/", "/", "a", "c", "m", "e", ".", "a", "v", "a", "t", "u", "r", "e", ".", "n", "e", "t", "/", "j", "o", "b", "s", "/", "r", "s", "s">>)
  @@ ("https://acme.avature.net/feed" :> <<"h", "t", "t", "p", "s", ":", "/", "/", "a", "c", "m", "e", ".", "a", "v", "a", "t", "u", "r", "e", ".", "n", "e", "t", "/", "f", "e", "e", "d">>)
  @@ ("https://acme.avature.net/careers/feed" :> <<"h", "t", "t", "p", "s", ":", "/", "/", "a", "c", "m", "e", ".", "a", "v", "a", "t", "u", "r", "e", ".", "n", "e", "t", "/", "c", "a", "r", "e", "e", "r", "s", "/", "f", "e", "e", "d">>)
  @@ ("https://acme.avature.net/jobs/feed" :> <<"h", "t", "t", "p", "s", ":", "/", "/", "a", "c", "m", "e", ".", "a", "v", "a", "t", "u", "r", "e", ".", "n", "e", "t", "/", "j", "o", "b", "s", "/", "f", "e", "e", "d">>)
  @@ ("https://jobs.example.com/rss" :> <<"h", "t", "t", "p", "s", ":", "/", "/", "j", "o", "b", "s", ".", "e", "x", "a", "m", "p", "l", "e", ".", "c", "o", "m", "/", "r", "s", "s">>)
  @@ ("https://jobs.example.com/careers/rss" :> <<"h", "t", "t", "p", "s", ":", "/", "/", "j", "o", "b", "s", ".", "e", "x", "a", "m", "p", "l", "e", ".", "c", "o", "m", "/", "c", "a", "r", "e", "e", "r", "s", "/", "r", "s", "s">>)
  @@ ("https://jobs.example.com/jobs/rss" :> <<"h", "t", "t", "p", "s", ":", "/", "/", "j", "o", "b", "s", ".", "e", "x", "a", "m", "p", "l", "e", ".", "c", "o", "m", "/", "j", "o", "b", "s", "/", "r", "s", "s">>)
  @@ ("https://jobs.example.com/feed" :> <<"h", "t", "t", "p", "s", ":", "/", "/", "j", "o", "b", "s", ".", "e", "x", "a", "m", "p", "l", "e", ".", "c", "o", "m", "/", "f", "e", "e", "d">>)
  @@ ("https://jobs.example.com/careers/feed" :> <<"h", "t", "t", "p", "s", ":", "/", "/", "j", "o", "b", "s", ".", "e", "x", "a", "m", "p", "l", "e", ".", "c", "o", "m", "/", "c", "a", "r", "e", "e", "r", "s", "/", "f", "e", "e", "d">>)
  @@ ("https://jobs.example.com/jobs/feed" :> <<"h", "t", "t", "p", "s", ":", "/", "/", "j", "o", "b", "s", ".", "e", "x", "a", "m", "p", "l", "e", ".", "c", "o", "m", "/", "j", "o", "b", "s", "/", "f", "e", "e", "d">>)

Literals == DOMAIN CharTable

Chars(s) == CharTable[s]

Str(cs) == CHOOSE s \in Literals : CharTable[s] = cs

(* The string constants of the code. *)

\* "/"
S_SLASH == <<"/">>

\* "//"
S_SLASH2 == <<"/", "/">>

\* ":"
S_COLON == <<":">>

\* "?"
S_QUERY == <<"?">>

\* "["
S_LBRACKET == <<"[">>

\* "]"
S_RBRACKET == <<"]">>

\* "://"
S_SCHEME_SEP == <<":", "/", "/">>

\* "/careers"
S_CAREERS_PATH == <<"/", "c", "a", "r", "e", "e", "r", "s">>

\* "/jobs"
S_JOBS_PATH == <<"/", "j", "o", "b", "s">>

\* "/careers/"
S_CAREERS_DIR == <<"/", "c", "a", "r", "e", "e", "r", "s", "/">>

\* "/jobs/"
S_JOBS_DIR == <<"/", "j", "o", "b", "s", "/">>

\* "careers"
S_CAREERS == <<"c", "a", "r", "e", "e", "r", "s">>

\* "jobs"
S_JOBS == <<"j", "o", "b", "s">>

\* "searchjobs"
S_SEARCHJOBS == <<"s", "e", "a", "r", "c", "h", "j", "o", "b", "s">>

\* "/jobdetail"
S_JOBDETAIL_PATH == <<"/", "j", "o", "b", "d", "e", "t", "a", "i", "l">>

\* "/blogs/"
S_BLOGS_DIR == <<"/", "b", "l", "o", "g", "s", "/">>

\* "/blog/"
S_BLOG_DIR == <<"/", "b", "l", "o", "g", "/">>

\* "avatureupfront"
S_AVATUREUPFRONT == <<"a", "v", "a", "t", "u", "r", "e", "u", "p", "f", "r", "o", "n", "t">>

\* "hr-trends"
S_HR_TRENDS == <<"h", "r", "-", "t", "r", "e", "n", "d", "s">>

\* "test-cookies"
S_TEST_COOKIES == <<"t", "e", "s", "t", "-", "c", "o", "o", "k", "i", "e", "s">>

\* "www.avature.net"
S_WWW_AVATURE_NET == <<"w", "w", "w", ".", "a", "v", "a", "t", "u", "r", "e", ".", "n", "e", "t">>

\* "avature.net"
S_AVATURE_NET == <<"a", "v", "a", "t", "u", "r", "e", ".", "n", "e", "t">>

\* ".avature.net"
S_DOT_AVATURE_NET == <<".", "a", "v", "a", "t", "u", "r", "e", ".", "n", "e", "t">>

\* "http"
S_HTTP == <<"h", "t", "t", "p">>

UpperLetters ==
    <<"A", "B", "C", "D", "E", "F", "G", "H", "I", "J", "K", "L", "M",
      "N", "O", "P", "Q", "R", "S", "T", "U", "V", "W", "X", "Y", "Z">>

LowerLetters ==
    <<"a", "b", "c", "d", "e", "f", "g", "h", "i", "j", "k", "l", "m",
      "n", "o", "p", "q", "r", "s", "t", "u", "v", "w", "x", "y", "z">>

Digits == {"0", "1", "2", "3", "4", "5", "6", "7", "8", "9"}

Range(f) == {f[i] : i \in DOMAIN f}

\* str.lower()
LowerChar(c) ==
    IF c \in Range(UpperLetters)
    THEN LowerLetters[CHOOSE i \in DOMAIN UpperLetters : UpperLetters[i] = c]
    ELSE c

Lower(s) == [i \in 1..Len(s) |-> LowerChar(s[i])]

\* p in s
Contains(s, p) ==
    \E i \in 1..(Len(s) - Len(p) + 1) : SubSeq(s, i, i + Len(p) - 1) = p

\* s.endswith(p)
EndsWith(s, p) ==
    Len(p) <= Len(s) /\ SubSeq(s, Len(s) - Len(p) + 1, Len(s)) = p

\* s.startswith(p)
StartsWith(s, p) ==
    Len(p) <= Len(s) /\ SubSeq(s, 1, Len(p)) = p

\* s.rstrip(c) for a one-character c
RStrip(s, c) ==
    LET keep == {i \in 1..Len(s) : s[i] # c}
        last == IF keep = {} THEN 0 ELSE CHOOSE i \in keep : \A j \in keep : j <= i
    IN  SubSeq(s, 1, last)

\* s.find(c) for a one-character c, from position from; 0 when absent
Find(s, c, from) ==
    LET hits == {i \in from..Len(s) : s[i] = c}
    IN  IF hits = {} THEN 0 ELSE CHOOSE i \in hits : \A j \in hits : i <= j

\* [x for x in s.split("/") if x]
RECURSIVE Parts(_)
Parts(s) ==
    IF s = <<>> THEN <<>>
    ELSE LET i == Find(s, "/", 1)
         IN  IF i = 0 THEN <<s>>
             ELSE IF i = 1 THEN Parts(SubSeq(s, 2, Len(s)))
             ELSE <<SubSeq(s, 1, i - 1)>> \o Parts(SubSeq(s, i + 1, Len(s)))

\* the outcome of a call that returns a bool
PyBool(b) == IF b THEN "True" ELSE "False"

-----------------------------------------------------------------------------------------------------------------------------------------------------
(* urllib.parse.urlparse, for URLs without ";" parameters and without      *)
(* control characters: scheme, netloc, path and query, or ValueError (ok   *)
(* is FALSE) for a netloc with an unbalanced square bracket.  Each step    *)
(* hands what it has split off to the next one.                            *)

Letters == Range(UpperLetters) \cup Range(LowerLetters)

IsSchemeChar(c) == c \in Letters \cup Digits \cup {"+", "-", "."}

\* url[:i] is a scheme, i the position of the first ":"
HasScheme(url, i) ==
    /\ i >= 2
    /\ url[1] \in Letters
    /\ \A k \in 1..(i - 1) : IsSchemeChar(url[k])

\* s[:h - 1], or s when h is 0
CutAt(s, h) == IF h = 0 THEN s ELSE SubSeq(s, 1, h - 1)

\* s[h + 1:], or nothing when h is 0
CutAfter(s, h) == IF h = 0 THEN <<>> ELSE SubSeq(s, h + 1, Len(s))

\* the end of the netloc of "//netloc...": the first of "/", "?", "#" after "//"
NetlocEnd(rest) ==
    LET ends == {k \in 3..Len(rest) : rest[k] \in {"/", "?", "#"}}
    IN  IF ends = {} THEN Len(rest) + 1 ELSE CHOOSE k \in ends : \A m \in ends : k <= m

urlparse_query(scheme, netloc, rest, q) ==
    [ok |-> Contains(netloc, S_LBRACKET) = Contains(netloc, S_RBRACKET),
     scheme |-> scheme,
     netloc |-> netloc,
     path |-> CutAt(rest, q),
     query |-> CutAfter(rest, q)]

urlparse_fragment(scheme, netloc, rest) ==
    urlparse_query(scheme, netloc, rest, Find(rest, "?", 1))

urlparse_netloc(scheme, rest, j) ==
    IF StartsWith(rest, S_SLASH2)
    THEN urlparse_fragment(scheme, SubSeq(rest, 3, j - 1),
                           CutAt(SubSeq(rest, j, Len(rest)), Find(SubSeq(rest, j, Len(rest)), "#", 1)))
    ELSE urlparse_fragment(scheme, <<>>, CutAt(rest, Find(rest, "#", 1)))

urlparse_scheme(scheme, rest) == urlparse_netloc(scheme, rest, NetlocEnd(rest))

urlparse_colon(url, i) ==
    urlparse_scheme(IF HasScheme(url, i) THEN Lower(SubSeq(url, 1, i - 1)) ELSE <<>>,
                    IF HasScheme(url, i) THEN SubSeq(url, i + 1, Len(url)) ELSE url)

urlparse(url) == urlparse_colon(url, Find(url, ":", 1))

-----------------------------------------------------------------------------
(* Link classification.  Each classifier parses the URL, strips the        *)
(* trailing slashes of the path and lower-cases it, then decides.          *)

\* (p.path or "").rstrip("/").lower()
HubPath(p) == Lower(RStrip(p.path, "/"))

career_hub_path(path) ==
    IF path = <<>> \/ path \in {S_SLASH, S_CAREERS_PATH, S_JOBS_PATH} THEN "True"
    ELSE IF Contains(path, S_CAREERS_DIR) \/ Contains(path, S_JOBS_DIR)
    THEN PyBool(Len(Parts(path)) <= 2)
    ELSE "False"

career_hub_parsed(p) == IF ~p.ok THEN "ValueError" ELSE career_hub_path(HubPath(p))

is_likely_career_hub(url) == career_hub_parsed(urlparse(url))

job_page_path(path) ==
    IF path = <<>> \/ path = S_SLASH THEN "False"
    ELSE IF Contains(path, S_BLOGS_DIR) \/ Contains(path, S_BLOG_DIR) THEN "True"
    ELSE PyBool(Len(Parts(path)) >= 2)

job_page_parsed(p) == IF ~p.ok THEN "ValueError" ELSE job_page_path(HubPath(p))

is_likely_job_page(url) == job_page_parsed(urlparse(url))

listing_page_path(path) ==
    IF path = <<>> THEN "False"
    ELSE IF Contains(path, S_SEARCHJOBS) /\ ~Contains(path, S_JOBDETAIL_PATH) THEN "True"
    ELSE IF /\ Len(Parts(path)) <= 2
            /\ (Contains(path, S_CAREERS) \/ Contains(path, S_JOBS))
    THEN "True"
    ELSE PyBool(EndsWith(path, S_CAREERS_PATH) \/ EndsWith(path, S_JOBS_PATH))

listing_page_parsed(p) == IF ~p.ok THEN "ValueError" ELSE listing_page_path(HubPath(p))

is_listing_page(url) == listing_page_parsed(urlparse(url))

-----------------------------------------------------------------------------
(* The job-posting admission filter. *)

RSS_NON_JOB_PATH_PATTERNS ==
    {S_BLOGS_DIR, S_BLOG_DIR, S_AVATUREUPFRONT, S_HR_TRENDS, S_TEST_COOKIES}

VENDOR_HOSTS == {S_WWW_AVATURE_NET, S_AVATURE_NET}

\* a variant that takes any mention of careers or jobs for a clear job path; C8
\* tells it from VendorExcluded
VendorExcluded_any_marker(netloc, path) ==
    /\ netloc \in VENDOR_HOSTS
    /\ \/ Contains(path, S_BLOGS_DIR)
       \/ Contains(path, S_BLOG_DIR)
       \/ Contains(path, S_AVATUREUPFRONT)
       \/ Contains(path, S_HR_TRENDS)
       \/ /\ ~Contains(path, S_CAREERS)
          /\ ~Contains(path, S_JOBS)
          /\ ~Contains(path, S_SEARCHJOBS)

\* the vendor's own host: a blog or marketing path, or no clear job path
VendorExcluded(netloc, path) ==
    /\ netloc \in VENDOR_HOSTS
    /\ \/ Contains(path, S_BLOGS_DIR)
       \/ Contains(path, S_BLOG_DIR)
       \/ Contains(path, S_AVATUREUPFRONT)
       \/ Contains(path, S_HR_TRENDS)
       \/ /\ ~Contains(path, S_CAREERS_DIR)
          /\ ~Contains(path, S_JOBS_DIR)
          /\ ~Contains(path, S_SEARCHJOBS)

\* a known non-job pattern in the path or in the title
NonJobPattern(path, title) ==
    \E pattern \in RSS_NON_JOB_PATH_PATTERNS :
        Contains(path, pattern) \/ Contains(title, pattern)

\* a career subdomain of the vendor with a job-like path
TenantJobPath(netloc, path) ==
    /\ Contains(netloc, S_DOT_AVATURE_NET)
    /\ netloc \notin VENDOR_HOSTS
    /\ \/ Contains(path, S_CAREERS_PATH)
       \/ Contains(path, S_JOBS_PATH)
       \/ Contains(path, S_SEARCHJOBS)
       \/ Contains(path, S_CAREERS)
       \/ Contains(path, S_JOBS)

\* a clear job listing path on any host
ClearJobPath(path) ==
    \/ Contains(path, S_CAREERS_DIR)
    \/ Contains(path, S_JOBS_DIR)
    \/ Contains(path, S_SEARCHJOBS)
    \/ EndsWith(path, S_CAREERS_PATH)
    \/ EndsWith(path, S_JOBS_PATH)
    \/ Contains(path, S_CAREERS_PATH)
    \/ Contains(path, S_JOBS_PATH)

\* a variant without the rule for the career subdomains; C7 tells it from
\* job_posting_rules
job_posting_rules_no_tenant_rule(netloc, path, title) ==
    IF VendorExcluded(netloc, path) THEN "False"
    ELSE IF NonJobPattern(path, title) THEN "False"
    ELSE PyBool(ClearJobPath(path))

\* the rules of is_likely_job_posting on the lower-cased netloc, path and title
job_posting_rules(netloc, path, title) ==
    IF VendorExcluded(netloc, path) THEN "False"
    ELSE IF NonJobPattern(path, title) THEN "False"
    ELSE IF TenantJobPath(netloc, path) THEN "True"
    ELSE PyBool(ClearJobPath(path))

job_posting_parsed(purl, title) ==
    IF ~purl.ok THEN "ValueError"
    ELSE job_posting_rules(Lower(purl.netloc), Lower(purl.path), title)

is_likely_job_posting(application_url, job_title, source_feed) ==
    IF application_url = <<>> THEN "False"
    ELSE job_posting_parsed(urlparse(application_url), Lower(job_title))

-----
(* The inputs of the pure functions: URLs put together from a scheme, a    *)
(* host, path segments, an optional trailing slash and an optional query.  *)

SeqsUpTo(S, n) == UNION {[1..k -> S] : k \in 0..n}

RECURSIVE JoinSegs(_)
JoinSegs(segs) ==
    IF segs = <<>> THEN <<>>
    ELSE S_SLASH \o Chars(Head(segs)) \o JoinSegs(Tail(segs))

UrlText(scheme, netloc, segs, trail, query) ==
    Chars(scheme) \o S_SCHEME_SEP \o Chars(netloc) \o JoinSegs(segs)
        \o (IF trail THEN S_SLASH ELSE <<>>)
        \o (IF query = "" THEN <<>> ELSE S_QUERY \o Chars(query))

ClassifySegs == {"careers", "jobs", "SearchJobs", "JobDetail", "123"}

ClassifyHosts == {"acme.avature.net", "[::1"}

ClassifyQueries == {"", "jobId=7"}

ClassifyInputs ==
    {UrlText("https", h, s, t, q) :
        h \in ClassifyHosts, s \in SeqsUpTo(ClassifySegs, MaxSegs),
        t \in BOOLEAN, q \in ClassifyQueries}

FilterSegs == {"careers", "jobs", "SearchJobs", "blog", "hr-trends", "mycareers"}

FilterHosts == {"www.avature.net", "avature.net", "acme.avature.net", "example.com"}

FilterTitles == {"", "Engineer", "HR-Trends Weekly"}

FilterInputs ==
    {<<>>} \cup
    {UrlText("https", h, s, t, "") :
        h \in FilterHosts, s \in SeqsUpTo(FilterSegs, MaxFilterSegs), t \in BOOLEAN}

Classifiers == {"is_likely_career_hub", "is_likely_job_page", "is_listing_page"}

NoCall == [fn |-> "", url |-> <<>>, title |-> <<>>]

-----------------------------------------------------------------------------
(* The pipeline's inputs: the URLs, the feed items, the page contents and  *)
(* the listing links the sites of the model can serve.                     *)

\* input links of a run
MaxLinks == 2
\* items of a feed document
MaxFeedItems == 2

U_hub == "https://acme.avature.net/careers"
U_hub2 == "https://jobs.example.com/"
U_job == "https://acme.avature.net/careers/JobDetail/123"
U_search == "https://acme.avature.net/careers/SearchJobs"
U_apply == "https://acme.avature.net/careers/ApplyJob/123"
U_blog == "https://www.avature.net/blogs/hiring"
U_vendor == "https://www.avature.net/about/team"
U_other == "https://example.com/about/team"
\* the href of an apply link that is no http(s) URL
U_mailto == "mailto:apply@acme.com"
\* a line of the links file that urlparse cannot parse
U_bad == "https://[::1/careers"

LinkPool == {U_hub, U_hub2, U_job, U_search, U_other, U_bad}

\* the detail pages a long listing links to
DetailUrls ==
    <<"https://acme.avature.net/careers/JobDetail/1", "https://acme.avature.net/careers/JobDetail/2",
      "https://acme.avature.net/careers/JobDetail/3", "https://acme.avature.net/careers/JobDetail/4",
      "https://acme.avature.net/careers/JobDetail/5", "https://acme.avature.net/careers/JobDetail/6",
      "https://acme.avature.net/careers/JobDetail/7", "https://acme.avature.net/careers/JobDetail/8",
      "https://acme.avature.net/careers/JobDetail/9", "https://acme.avature.net/careers/JobDetail/10",
      "https://acme.avature.net/careers/JobDetail/11", "https://acme.avature.net/careers/JobDetail/12",
      "https://acme.avature.net/careers/JobDetail/13", "https://acme.avature.net/careers/JobDetail/14",
      "https://acme.avature.net/careers/JobDetail/15", "https://acme.avature.net/careers/JobDetail/16",
      "https://acme.avature.net/careers/JobDetail/17", "https://acme.avature.net/careers/JobDetail/18",
      "https://acme.avature.net/careers/JobDetail/19", "https://acme.avature.net/careers/JobDetail/20",
      "https://acme.avature.net/careers/JobDetail/21", "https://acme.avature.net/careers/JobDetail/22",
      "https://acme.avature.net/careers/JobDetail/23", "https://acme.avature.net/careers/JobDetail/24",
      "https://acme.avature.net/careers/JobDetail/25", "https://acme.avature.net/careers/JobDetail/26",
      "https://acme.avature.net/careers/JobDetail/27", "https://acme.avature.net/careers/JobDetail/28",
      "https://acme.avature.net/careers/JobDetail/29", "https://acme.avature.net/careers/JobDetail/30",
      "https://acme.avature.net/careers/JobDetail/31", "https://acme.avature.net/careers/JobDetail/32",
      "https://acme.avature.net/careers/JobDetail/33", "https://acme.avature.net/careers/JobDetail/34",
      "https://acme.avature.net/careers/JobDetail/35", "https://acme.avature.net/careers/JobDetail/36",
      "https://acme.avature.net/careers/JobDetail/37", "https://acme.avature.net/careers/JobDetail/38",
      "https://acme.avature.net/careers/JobDetail/39", "https://acme.avature.net/careers/JobDetail/40",
      "https://acme.avature.net/careers/JobDetail/41", "https://acme.avature.net/careers/JobDetail/42",
      "https://acme.avature.net/careers/JobDetail/43", "https://acme.avature.net/careers/JobDetail/44",
      "https://acme.avature.net/careers/JobDetail/45", "https://acme.avature.net/careers/JobDetail/46",
      "https://acme.avature.net/careers/JobDetail/47", "https://acme.avature.net/careers/JobDetail/48",
      "https://acme.avature.net/careers/JobDetail/49", "https://acme.avature.net/careers/JobDetail/50",
      "https://acme.avature.net/careers/JobDetail/51", "https://acme.avature.net/careers/JobDetail/52",
      "https://acme.avature.net/careers/JobDetail/53", "https://acme.avature.net/careers/JobDetail/54",
      "https://acme.avature.net/careers/JobDetail/55", "https://acme.avature.net/careers/JobDetail/56",
      "https://acme.avature.net/careers/JobDetail/57", "https://acme.avature.net/careers/JobDetail/58",
      "https://acme.avature.net/careers/JobDetail/59", "https://acme.avature.net/careers/JobDetail/60",
      "https://acme.avature.net/careers/JobDetail/61", "https://acme.avature.net/careers/JobDetail/62",
      "https://acme.avature.net/careers/JobDetail/63", "https://acme.avature.net/careers/JobDetail/64",
      "https://acme.avature.net/careers/JobDetail/65", "https://acme.avature.net/careers/JobDetail/66",
      "https://acme.avature.net/careers/JobDetail/67", "https://acme.avature.net/careers/JobDetail/68",
      "https://acme.avature.net/careers/JobDetail/69", "https://acme.avature.net/careers/JobDetail/70",
      "https://acme.avature.net/careers/JobDetail/71", "https://acme.avature.net/careers/JobDetail/72",
      "https://acme.avature.net/careers/JobDetail/73", "https://acme.avature.net/careers/JobDetail/74",
      "https://acme.avature.net/careers/JobDetail/75", "https://acme.avature.net/careers/JobDetail/76",
      "https://acme.avature.net/careers/JobDetail/77", "https://acme.avature.net/careers/JobDetail/78",
      "https://acme.avature.net/careers/JobDetail/79", "https://acme.avature.net/careers/JobDetail/80",
      "https://acme.avature.net/careers/JobDetail/81", "https://acme.avature.net/careers/JobDetail/82",
      "https://acme.avature.net/careers/JobDetail/83", "https://acme.avature.net/careers/JobDetail/84",
      "https://acme.avature.net/careers/JobDetail/85", "https://acme.avature.net/careers/JobDetail/86",
      "https://acme.avature.net/careers/JobDetail/87", "https://acme.avature.net/careers/JobDetail/88",
      "https://acme.avature.net/careers/JobDetail/89", "https://acme.avature.net/careers/JobDetail/90",
      "https://acme.avature.net/careers/JobDetail/91", "https://acme.avature.net/careers/JobDetail/92",
      "https://acme.avature.net/careers/JobDetail/93", "https://acme.avature.net/careers/JobDetail/94",
      "https://acme.avature.net/careers/JobDetail/95", "https://acme.avature.net/careers/JobDetail/96",
      "https://acme.avature.net/careers/JobDetail/97", "https://acme.avature.net/careers/JobDetail/98",
      "https://acme.avature.net/careers/JobDetail/99", "https://acme.avature.net/careers/JobDetail/100",
      "https://acme.avature.net/careers/JobDetail/101", "https://acme.avature.net/careers/JobDetail/102",
      "https://acme.avature.net/careers/JobDetail/103">>

PipelineUrls == LinkPool \cup {U_apply, U_blog, U_vendor, U_mailto} \cup Range(DetailUrls)

PipelineTitles == {"", "Engineer", "Untitled", "Job", "Senior Dev", "Hiring blog"}

None == "<None>"

\* a feed item, as the texts of its elements ("" for an absent element)
FeedItemPool ==
    {[title |-> "Engineer", link |-> U_job, description |-> <<>>,
      pubDate |-> "d1", guid |-> ""],
     [title |-> "Engineer", link |-> U_job, description |-> <<"a", "b">>,
      pubDate |-> "", guid |-> "g1"],
     [title |-> "Hiring blog", link |-> U_blog, description |-> <<"a">>,
      pubDate |-> "d1", guid |-> ""]}

FeedDocs == SeqsUpTo(FeedItemPool, MaxFeedItems)

\* a fetched page: the response status (0 when the request raises and there is
\* none) and what the selector chains find in it
PagePool ==
    {[status |-> 404, title |-> "", description |-> <<>>, apply_href |-> "",
      location |-> "", date_posted |-> ""],
     [status |-> 0, title |-> "", description |-> <<>>, apply_href |-> "",
      location |-> "", date_posted |-> ""],
     [status |-> 200, title |-> "", description |-> <<>>, apply_href |-> "",
      location |-> "NYC", date_posted |-> ""],
     [status |-> 200, title |-> "", description |-> <<"a">>, apply_href |-> "",
      location |-> "", date_posted |-> "d2"],
     [status |-> 200, title |-> "Engineer", description |-> <<"a">>,
      apply_href |-> U_apply, location |-> "", date_posted |-> ""],
     [status |-> 200, title |-> "Engineer", description |-> <<"a">>,
      apply_href |-> U_vendor, location |-> "NYC", date_posted |-> ""]}

\* the (job_url, card_title) pairs extract_job_links_from_listing can return
ListingPool ==
    {<<>>,
     <<<<U_job, "Job">>, <<U_apply, "Senior Dev">>>>}

\* the number of detail links on the long listing, one more than the cap
MaxFound == 101

\* what extract_job_links_from_listing returns for it: the URLs are distinct
LongListing == [i \in 1..MaxFound |-> <<DetailUrls[i], "Job">>]

FEED_PATHS == <<"/rss", "/careers/rss", "/jobs/rss", "/feed", "/careers/feed", "/jobs/feed">>

\* live: the feed paths that can answer with a well-formed feed
AnyWeb ==
    [live |-> {"/rss"}, feeds |-> FeedDocs, pages |-> PagePool, listings |-> ListingPool]

-----------------------------------------------------------------------------
(* The classifiers and the filter on the pipeline's URLs. *)

HubOf == [u \in PipelineUrls |-> is_likely_career_hub(Chars(u))]

JobPageOf == [u \in PipelineUrls |-> is_likely_job_page(Chars(u))]

ListingOf == [u \in PipelineUrls |-> is_listing_page(Chars(u))]

PostingOf ==
    [u \in PipelineUrls \cup {""} |->
        [t \in PipelineTitles |-> is_likely_job_posting(Chars(u), Chars(t), <<>>)]]

\* urlparse(url).netloc
NetlocOf == [u \in PipelineUrls \cup {""} |-> Str(urlparse(Chars(u)).netloc)]

\* parsed.scheme + "://" + parsed.netloc
Origin(p) == p.scheme \o S_SCHEME_SEP \o p.netloc

OriginOf == [u \in PipelineUrls \cup {""} |-> Origin(urlparse(Chars(u)))]

\* urljoin(url, href): an href with a scheme is its own value when it has a
\* netloc or when its scheme is not the scheme of url, one that is an absolute
\* path replaces the path of url
urljoin_parsed(url, href, ref, p) ==
    IF /\ p.scheme # <<>>
       /\ (p.netloc # <<>> \/ ~StartsWith(OriginOf[url], p.scheme \o S_SCHEME_SEP))
    THEN href
    ELSE Str(OriginOf[url] \o ref)

urljoin_ref(url, href, ref) == urljoin_parsed(url, href, ref, urlparse(ref))

urljoin(url, href) == urljoin_ref(url, href, Chars(href))

-----------------------------------------------------------------------------
(* Records. *)

NoJob ==
    [job_title |-> "", job_description |-> <<>>, application_url |-> "",
     metadata |-> [k \in {} |-> ""], source_site |-> "", source_url |-> ""]

\* the link of a feed item: its link, or its guid when that is a URL
ItemLink(item, scheme, guid) ==
    IF /\ item.link = ""
       /\ item.guid # ""
       /\ (StartsWith(guid, S_HTTP) \/ StartsWith(guid, S_SLASH2))
    THEN IF StartsWith(guid, S_HTTP) THEN item.guid ELSE Str(scheme \o S_COLON \o guid)
    ELSE item.link

\* the records of one feed item with that link (none or one)
FeedItemLinked(item, link, base_url, url) ==
    IF item.title = "" /\ item.link = "" THEN <<>>
    ELSE IF link = "" THEN <<>>
    ELSE IF PostingOf[link][item.title] # "True" THEN <<>>
    ELSE <<[job_title |-> IF item.title = "" THEN "Untitled" ELSE item.title,
            job_description |-> item.description,
            application_url |-> link,
            metadata |->
                [k \in {"date_posted", "job_id", "source_feed"} |->
                    CASE k = "date_posted" -> IF item.pubDate = "" THEN None ELSE item.pubDate
                      [] k = "job_id" -> IF item.guid = "" THEN None ELSE item.guid
                      [] OTHER -> url],
            source_site |-> NetlocOf[base_url],
            source_url |-> url]>>

\* the records of one feed item, lines 253-288 of fetch_rss_jobs
FeedItemJobs(item, base_url, url) ==
    FeedItemLinked(item, ItemLink(item, urlparse(Chars(base_url)).scheme, Chars(item.guid)),
                   base_url, url)

RECURSIVE FeedJobs(_, _, _)
FeedJobs(doc, base_url, url) ==
    IF doc = <<>> THEN <<>>
    ELSE FeedItemJobs(Head(doc), base_url, url) \o FeedJobs(Tail(doc), base_url, url)

\* urljoin(origin, path) of fetch_rss_jobs
FeedUrl(base_url, path) == Str(OriginOf[base_url] \o Chars(path))

\* a variant that makes a record of a page without title and description; C12
\* tells it from extract_job_from_html
extract_job_from_html_empty_shell(url, page) ==
    IF page.status # 200 THEN <<>>
    ELSE <<[job_title |-> IF page.title = "" THEN "Untitled" ELSE page.title,
            job_description |-> page.description,
            application_url |->
                IF page.apply_href = "" THEN url ELSE urljoin(url, page.apply_href),
            metadata |-> [k \in {"source_page"} |-> url],
            source_site |-> NetlocOf[url],
            source_url |-> url]>>

\* a variant without the "Untitled" sentinel; C15 tells it from
\* extract_job_from_html
extract_job_from_html_no_sentinel(url, page) ==
    IF page.status # 200 \/ (page.title = "" /\ page.description = <<>>) THEN <<>>
    ELSE <<[extract_job_from_html_empty_shell(url, page)[1] EXCEPT !.job_title = page.title]>>

\* extract_job_from_html: no record (<<>>) or one record
extract_job_from_html(url, page) ==
    LET metadata ==
            [k \in {"source_page"}
                    \cup (IF page.location # "" THEN {"location"} ELSE {})
                    \cup (IF page.date_posted # "" THEN {"date_posted"} ELSE {}) |->
                CASE k = "source_page" -> url
                  [] k = "location" -> page.location
                  [] OTHER -> page.date_posted]
    IN  IF page.status # 200 THEN <<>>
        ELSE IF page.title = "" /\ page.description = <<>> THEN <<>>
        ELSE <<[job_title |-> IF page.title = "" THEN "Untitled" ELSE page.title,
                job_description |-> page.description,
                application_url |->
                    IF page.apply_href = "" THEN url ELSE urljoin(url, page.apply_href),
                metadata |-> metadata,
                source_site |-> NetlocOf[url],
                source_url |-> url]>>

\* the record add_job appends: the job with its extracted_at
Stamp(job, t) ==
    [job_title |-> job.job_title, job_description |-> job.job_description,
     application_url |-> job.application_url, metadata |-> job.metadata,
     source_site |-> job.source_site, source_url |-> job.source_url,
     extracted_at |-> t]

KeyOf(job) == <<job.source_site, job.application_url>>

\* a variant that appends without looking at the seen keys; C1 tells it from
\* add_job_checked
add_job_checked_no_dedup(job, jobs, seen, t, text, posting) ==
    IF /\ job.application_url # ""
       /\ (Contains(text, S_BLOGS_DIR) \/ Contains(text, S_BLOG_DIR))
    THEN [all_jobs |-> jobs, seen_keys |-> seen]
    ELSE IF posting = "False" /\ Lower(Chars(NetlocOf[job.application_url])) \in VENDOR_HOSTS
    THEN [all_jobs |-> jobs, seen_keys |-> seen]
    ELSE [all_jobs |-> Append(jobs, Stamp(job, t)), seen_keys |-> seen \cup {KeyOf(job)}]

\* a variant that stamps the stored record again when its identity comes back; C4
\* tells it from add_job_checked
add_job_checked_restamp(job, jobs, seen, t, text, posting) ==
    IF /\ job.application_url # ""
       /\ (Contains(text, S_BLOGS_DIR) \/ Contains(text, S_BLOG_DIR))
    THEN [all_jobs |-> jobs, seen_keys |-> seen]
    ELSE IF posting = "False" /\ Lower(Chars(NetlocOf[job.application_url])) \in VENDOR_HOSTS
    THEN [all_jobs |-> jobs, seen_keys |-> seen]
    ELSE IF KeyOf(job) \in seen
    THEN [all_jobs |->
              [i \in 1..Len(jobs) |->
                  IF KeyOf(jobs[i]) = KeyOf(job)
                  THEN [jobs[i] EXCEPT !.extracted_at = t]
                  ELSE jobs[i]],
          seen_keys |-> seen]
    ELSE [all_jobs |-> Append(jobs, Stamp(job, t)), seen_keys |-> seen \cup {KeyOf(job)}]

\* a variant that lets the vendor's own pages past a failed filter; C5 tells it
\* from add_job_checked
add_job_checked_vendor_allowed(job, jobs, seen, t, text, posting) ==
    IF /\ job.application_url # ""
       /\ (Contains(text, S_BLOGS_DIR) \/ Contains(text, S_BLOG_DIR))
    THEN [all_jobs |-> jobs, seen_keys |-> seen]
    ELSE IF KeyOf(job) \in seen THEN [all_jobs |-> jobs, seen_keys |-> seen]
    ELSE [all_jobs |-> Append(jobs, Stamp(job, t)), seen_keys |-> seen \cup {KeyOf(job)}]

\* add_job after its look at the URL: text the characters of application_url,
\* posting the filter's outcome
add_job_checked(job, jobs, seen, t, text, posting) ==
    IF /\ job.application_url # ""
       /\ (Contains(text, S_BLOGS_DIR) \/ Contains(text, S_BLOG_DIR))
    THEN [all_jobs |-> jobs, seen_keys |-> seen]
    ELSE IF posting = "False" /\ Lower(Chars(NetlocOf[job.application_url])) \in VENDOR_HOSTS
    THEN [all_jobs |-> jobs, seen_keys |-> seen]
    ELSE IF KeyOf(job) \in seen THEN [all_jobs |-> jobs, seen_keys |-> seen]
    ELSE [all_jobs |-> Append(jobs, Stamp(job, t)), seen_keys |-> seen \cup {KeyOf(job)}]

\* add_job: the corpus and the seen keys after add_job(job) at time t
add_job(job, jobs, seen, t) ==
    add_job_checked(job, jobs, seen, t, Chars(job.application_url),
                    PostingOf[job.application_url][job.job_title])

\* {**old, **new}
DictUnion(old, new) ==
    [k \in DOMAIN old \cup DOMAIN new |-> IF k \in DOMAIN new THEN new[k] ELSE old[k]]

\* a variant that takes the new description whatever its length; C3 tells it
\* from MergeInto
MergeInto_overwrite(existing, job) ==
    [existing EXCEPT
        !.job_description = IF job.job_description # <<>> THEN job.job_description ELSE @,
        !.metadata = IF DOMAIN job.metadata # {} THEN DictUnion(@, job.metadata) ELSE @]

\* a variant that takes the new record's title too; C22 tells it from MergeInto
MergeInto_retitle(existing, job) ==
    [MergeInto_overwrite(existing, job) EXCEPT !.job_title = job.job_title]

\* the stored record after the enrichment merge of job into it, lines 535-538
MergeInto(existing, job) ==
    [existing EXCEPT
        !.job_description =
            IF /\ job.job_description # <<>>
               /\ Len(job.job_description) > Len(existing.job_description)
            THEN job.job_description
            ELSE @,
        !.metadata = IF DOMAIN job.metadata # {} THEN DictUnion(@, job.metadata) ELSE @]

\* the enrichment phase's handling of one extracted record, lines 529-541
enrich_job(job, jobs, seen, t) ==
    IF ~(job.job_description # <<>> \/ DOMAIN job.metadata # {})
    THEN [all_jobs |-> jobs, seen_keys |-> seen]
    ELSE IF KeyOf(job) \in seen
    THEN LET hits == {i \in 1..Len(jobs) : KeyOf(jobs[i]) = KeyOf(job)}
             first == CHOOSE i \in hits : \A j \in hits : i <= j
         IN  [all_jobs |->
                  IF hits = {} THEN jobs
                  ELSE [jobs EXCEPT ![first] = MergeInto(jobs[first], job)],
              seen_keys |-> seen]
    ELSE add_job(job, jobs, seen, t)

-----------------------------------------------------------------------------
(* run_extraction. *)

\* the cap on the detail links expanded per listing page
LISTING_CAP == 100

Min(a, b) == IF a <= b THEN a ELSE b

\* a variant without the slice; C13 tells it from Take
Take_all(s, n) == s

\* s[:n]
Take(s, n) == SubSeq(s, 1, Min(n, Len(s)))

IsHub(u) == HubOf[u] = "True"

IsJobPage(u) == JobPageOf[u] = "True"

\* job_page_urls[:max_job_pages]
ToFetch(urls) == Take(urls, cfg.max_job_pages)

RECURSIVE ApplicationUrls(_)
ApplicationUrls(jobs) ==
    IF jobs = <<>> THEN <<>>
    ELSE (IF Head(jobs).application_url # "" THEN <<Head(jobs).application_url>> ELSE <<>>)
             \o ApplicationUrls(Tail(jobs))

\* the enrichment list, computed from the corpus when phase 3 starts
ToEnrich(jobs, urls) ==
    LET NotAlready(u) == u \notin Range(urls)
    IN  Take(SelectSeq(ApplicationUrls(jobs), NotAlready), cfg.max_job_pages)

Goto(p, i, te) == [pc |-> p, idx |-> i, to_enrich |-> te]

\* where phase 3 starts, or the write step when it is skipped or its list is empty
StartEnrich(jobs, urls, hs) ==
    IF cfg.fetch_rss /\ hs # <<>> /\ cfg.fetch_job_pages /\ ToEnrich(jobs, urls) # <<>>
    THEN Goto("enrich", 1, ToEnrich(jobs, urls))
    ELSE Goto("write", 1, <<>>)

\* where phase 2 starts, or phase 3 when it is skipped or its list is empty
StartPages(jobs, urls, hs) ==
    IF cfg.fetch_job_pages /\ ToFetch(urls) # <<>>
    THEN Goto("pages", 1, <<>>)
    ELSE StartEnrich(jobs, urls, hs)

\* after the page at index i
NextPage(i, jobs) ==
    IF i < Len(to_fetch) THEN Goto("pages", i + 1, <<>>) ELSE StartEnrich(jobs, job_page_urls, hubs)

\* after the enrichment URL at index i
NextEnrich(i) ==
    IF i < Len(to_enrich) THEN Goto("enrich", i + 1, to_enrich) ELSE Goto("write", 1, <<>>)

Jump(g) == pc' = g.pc /\ idx' = g.idx /\ to_enrich' = g.to_enrich

\* the classifier raises on one of the links: the list comprehension is in no try
Raises(table) == \E i \in 1..Len(cfg.links) : table[cfg.links[i]] = "ValueError"

\* job_page_urls and to_fetch are computed when phase 1 is over
ClassifyPages(hs) ==
    IF Raises(JobPageOf)
    THEN pc' = "raised" /\ UNCHANGED <<idx, to_enrich, job_page_urls, to_fetch>>
    ELSE /\ job_page_urls' = SelectSeq(cfg.links, IsJobPage)
         /\ to_fetch' = IF cfg.fetch_job_pages THEN ToFetch(job_page_urls') ELSE <<>>
         /\ Jump(StartPages(all_jobs, job_page_urls', hs))

\* ev is what the last step admitted: nothing,
NoEv == [op |-> "none", job |-> NoJob, known |-> FALSE]

NoAdmission == all_jobs' = all_jobs /\ seen_keys' = seen_keys /\ now' = now /\ ev' = NoEv

\* or the job handed to add_job or to the merge and whether its identity was known
\* by then.  The corpus after the admission r;
\* now counts the readings of the clock, one for each record appended
Commit(r, op, job) ==
    /\ all_jobs' = r.all_jobs
    /\ seen_keys' = r.seen_keys
    /\ now' = now + (Len(r.all_jobs) - Len(all_jobs))
    /\ ev' = [op |-> op, job |-> job, known |-> KeyOf(job) \in seen_keys]

\* add_job(job) called now
Admit(job) == Commit(add_job(job, all_jobs, seen_keys, now), "add_job", job)

\* the enrichment phase's handling of job called now
AdmitEnriched(job) ==
    Commit(enrich_job(job, all_jobs, seen_keys, now),
           IF KeyOf(job) \in seen_keys THEN "merge" ELSE "add_job", job)

\* lines 500-501: a listing-expanded record without a title takes the card's
CardTitle(job, card_title) ==
    IF card_title # None /\ (job.job_title = "" \/ job.job_title = "Untitled")
    THEN [job EXCEPT !.job_title = card_title]
    ELSE job

\* what the caller of extract_job_from_html does with its result: nothing when no
\* record came back, the merge-or-add of phase 3 when enriching, add_job otherwise
AdmitExtracted(job, card_title, enriching) ==
    IF job = <<>> THEN NoAdmission
    ELSE IF enriching THEN AdmitEnriched(job[1])
    ELSE Admit(CardTitle(job[1], card_title))

\* session.get raises on a URL that is not http(s): there is no response
NoResponse ==
    [status |-> 0, title |-> "", description |-> <<>>, apply_href |-> "",
     location |-> "", date_posted |-> ""]

\* what session.get(url) may answer
PagesAt(url) == IF StartsWith(Chars(url), S_HTTP) THEN web.pages ELSE {NoResponse}

\* extract_job_from_html(url) on some page of the site, and what the caller does
\* with the result
ExtractAndAdmit(url, card_title, enriching) ==
    \E page \in PagesAt(url) :
        AdmitExtracted(extract_job_from_html(url, page), card_title, enriching)

\* the links are loaded and the hubs picked
Start ==
    /\ pc = "start"
    /\ \/ /\ cfg.links = <<>>
          /\ pc' = "no_links"
          /\ UNCHANGED <<idx, hubs, job_page_urls, to_fetch, to_enrich>>
       \/ \* is_likely_career_hub raises on a link: the exception leaves run_extraction
          /\ cfg.links # <<>>
          /\ Raises(HubOf)
          /\ pc' = "raised"
          /\ UNCHANGED <<idx, hubs, job_page_urls, to_fetch, to_enrich>>
       \/ /\ cfg.links # <<>>
          /\ ~Raises(HubOf)
          /\ hubs' = SelectSeq(cfg.links, IsHub)
          /\ IF cfg.fetch_rss /\ hubs' # <<>>
             THEN Jump(Goto("rss", 1, <<>>)) /\ UNCHANGED <<job_page_urls, to_fetch>>
             ELSE ClassifyPages(hubs')
    /\ NoAdmission
    /\ UNCHANGED <<call, ret, cfg, web, probe, pending, job_links, fetches, expanded, served,
                   last_req>>

\* one request of fetch_rss_jobs's loop over the feed paths
RssProbe ==
    /\ pc = "rss"
    /\ probe <= Len(FEED_PATHS)
    /\ LET base_url == hubs[idx]
           url == FeedUrl(base_url, FEED_PATHS[probe])
       IN  \/ \* the request raises or the content does not parse: the except
              \* clause and time.sleep(0.3); or the status is not 200: continue,
              \* which skips the sleep
              /\ pending' = pending
              /\ served' = served
              /\ last_req' \in {"", url}
              /\ IF probe < Len(FEED_PATHS)
                 THEN probe' = probe + 1 /\ pc' = pc
                 ELSE probe' = probe /\ pc' = "rss_add"
           \/ \* a well-formed feed: its jobs end the loop
              /\ FEED_PATHS[probe] \in web.live
              /\ \E doc \in web.feeds : pending' = pending \o FeedJobs(doc, base_url, url)
              /\ served' = TRUE
              /\ last_req' = IF pending' = <<>> THEN "" ELSE url
              /\ IF pending' = <<>> /\ probe < Len(FEED_PATHS)
                 THEN probe' = probe + 1 /\ pc' = pc
                 ELSE probe' = probe /\ pc' = "rss_add"
    /\ NoAdmission
    /\ UNCHANGED <<call, ret, cfg, web, idx, job_links, hubs, job_page_urls, to_fetch, to_enrich,
                   fetches, expanded>>

\* for j in jobs: add_job(j)
RssAdd ==
    /\ pc = "rss_add"
    /\ pending # <<>>
    /\ Admit(Head(pending))
    /\ pending' = Tail(pending)
    /\ UNCHANGED <<call, ret, cfg, web, pc, idx, probe, job_links, hubs, job_page_urls,
                   to_fetch, to_enrich, fetches, expanded, served, last_req>>

\* the next hub, or phase 2
RssNextHub ==
    /\ pc = "rss_add"
    /\ pending = <<>>
    /\ IF idx < Len(hubs)
       THEN Jump(Goto("rss", idx + 1, <<>>)) /\ UNCHANGED <<job_page_urls, to_fetch>>
       ELSE ClassifyPages(hubs)
    /\ probe' = 1
    /\ served' = FALSE
    /\ last_req' = ""
    /\ NoAdmission
    /\ UNCHANGED <<call, ret, cfg, web, pending, job_links, hubs, fetches, expanded>>

\* a single page of phase 2
FetchPage ==
    /\ pc = "pages"
    /\ ListingOf[to_fetch[idx]] # "True"
    /\ ExtractAndAdmit(to_fetch[idx], None, FALSE)
    /\ Jump(NextPage(idx, all_jobs'))
    /\ fetches' = fetches + 1
    /\ last_req' = ""
    /\ UNCHANGED <<call, ret, cfg, web, probe, pending, job_links, hubs, job_page_urls, to_fetch,
                   expanded, served>>

\* a listing page of phase 2
FetchListing ==
    /\ pc = "pages"
    /\ ListingOf[to_fetch[idx]] = "True"
    /\ \/ \* the status is not 200: time.sleep(0.4) and continue; or the request
          \* raises: the outer except, without a sleep
          /\ NoAdmission
          /\ Jump(NextPage(idx, all_jobs))
          /\ job_links' = job_links
          /\ fetches' = fetches + 1
          /\ expanded' = expanded
          /\ last_req' \in {"", to_fetch[idx]}
       \/ \* job links found: expand the first LISTING_CAP of them
          /\ \E found \in web.listings :
                /\ found # <<>>
                /\ job_links' = Take(found, LISTING_CAP)
          /\ NoAdmission
          /\ pc' = "expand"
          /\ fetches' = fetches + 1
          /\ expanded' = 0
          /\ last_req' = to_fetch[idx]
          /\ UNCHANGED <<idx, to_enrich>>
       \/ \* no job link found: the whole page as one entry
          /\ <<>> \in web.listings
          /\ ExtractAndAdmit(to_fetch[idx], None, FALSE)
          /\ Jump(NextPage(idx, all_jobs'))
          /\ job_links' = job_links
          /\ fetches' = fetches + 2
          /\ expanded' = expanded
          /\ last_req' = ""
    /\ UNCHANGED <<call, ret, cfg, web, probe, pending, hubs, job_page_urls, to_fetch, served>>

\* one detail link of the listing
ExpandLink ==
    /\ pc = "expand"
    /\ job_links # <<>>
    /\ ExtractAndAdmit(Head(job_links)[1], Head(job_links)[2], FALSE)
    /\ IF Tail(job_links) = <<>>
       THEN Jump(NextPage(idx, all_jobs'))
       ELSE UNCHANGED <<pc, idx, to_enrich>>
    /\ job_links' = Tail(job_links)
    /\ fetches' = fetches + 1
    /\ expanded' = expanded + 1
    /\ last_req' = ""
    /\ UNCHANGED <<call, ret, cfg, web, probe, pending, hubs, job_page_urls, to_fetch, served>>

\* one URL of the enrichment list
Enrich ==
    /\ pc = "enrich"
    /\ ExtractAndAdmit(to_enrich[idx], None, TRUE)
    /\ Jump(NextEnrich(idx))
    /\ fetches' = fetches + 1
    /\ last_req' = ""
    /\ UNCHANGED <<call, ret, cfg, web, probe, pending, job_links, hubs, job_page_urls, to_fetch,
                   expanded, served>>

\* the corpus is written and returned
Write ==
    /\ pc = "write"
    /\ pc' = "done"
    /\ NoAdmission
    /\ UNCHANGED <<call, ret, cfg, web, idx, probe, pending, job_links, hubs, job_page_urls,
                   to_fetch, to_enrich, fetches, expanded, served, last_req>>

Configs ==
    [links : SeqsUpTo(LinkPool, MaxLinks), fetch_rss : BOOLEAN,
     fetch_job_pages : BOOLEAN, max_job_pages : {1, 500}]

InitRun(c, w) ==
    /\ cfg = c
    /\ web = w
    /\ idx = 1
    /\ probe = 1
    /\ pending = <<>>
    /\ job_links = <<>>
    /\ hubs = <<>>
    /\ job_page_urls = <<>>
    /\ to_fetch = <<>>
    /\ to_enrich = <<>>
    /\ all_jobs = <<>>
    /\ seen_keys = {}
    /\ now = 0
    /\ ev = NoEv
    /\ fetches = 0
    /\ expanded = 0
    /\ served = FALSE
    /\ last_req = ""

Init ==
    /\ call = NoCall
    /\ ret = ""
    /\ pc = "start"
    /\ \E c \in Configs : InitRun(c, AnyWeb)

Next ==
    \/ Start
    \/ RssProbe
    \/ RssAdd
    \/ RssNextHub
    \/ FetchPage
    \/ FetchListing
    \/ ExpandLink
    \/ Enrich
    \/ Write

Spec == Init /\ [][Next]_vars


-----------------------------------------------------------------------------
(* The classifiers and the filter called on their own: one call, on one of *)
(* the inputs, and its outcome in ret ("True", "False" or "ValueError").   *)

NoConfig == [links |-> <<>>, fetch_rss |-> FALSE, fetch_job_pages |-> FALSE, max_job_pages |-> 500]

\* one call of fn is outstanding and no run of the pipeline is under way
InitCall(fn, urls, titles) ==
    /\ call \in [fn : fn, url : urls, title : titles]
    /\ ret = ""
    /\ pc = "idle"
    /\ InitRun(NoConfig, AnyWeb)

CallCareerHub ==
    /\ call.fn = "is_likely_career_hub"
    /\ ret = ""
    /\ ret' = is_likely_career_hub(call.url)
    /\ UNCHANGED <<call, pipeVars>>

CallJobPage ==
    /\ call.fn = "is_likely_job_page"
    /\ ret = ""
    /\ ret' = is_likely_job_page(call.url)
    /\ UNCHANGED <<call, pipeVars>>

CallListingPage ==
    /\ call.fn = "is_listing_page"
    /\ ret = ""
    /\ ret' = is_listing_page(call.url)
    /\ UNCHANGED <<call, pipeVars>>

InitClassify == InitCall(Classifiers, ClassifyInputs, {<<>>})

NextClassify ==
    \/ CallCareerHub
    \/ CallJobPage
    \/ CallListingPage

SpecClassify == InitClassify /\ [][NextClassify]_vars

CallJobPosting ==
    /\ call.fn = "is_likely_job_posting"
    /\ ret = ""
    /\ ret' = is_likely_job_posting(call.url, call.title, <<>>)
    /\ UNCHANGED <<call, pipeVars>>

InitFilter ==
    InitCall({"is_likely_job_posting"}, FilterInputs, {Chars(t) : t \in FilterTitles})

NextFilter == CallJobPosting

SpecFilter == InitFilter /\ [][NextFilter]_vars

-----------------------------------------------------------------------------
(* The claims about the filter and the classifiers. *)

\* the call of fn has returned or raised
Answered(fn) == call.fn = fn /\ ret # ""

S_JOBDETAIL == <<"j", "o", "b", "d", "e", "t", "a", "i", "l">>

S_JOBID_PARAM == <<"j", "o", "b", "i", "d", "=">>

\* a tenant career subdomain of the vendor
IsTenantHost(netloc) == EndsWith(netloc, S_DOT_AVATURE_NET) /\ netloc \notin VENDOR_HOSTS

\* a career/job marker anywhere in the path
HasMarker(path) ==
    Contains(path, S_CAREERS) \/ Contains(path, S_JOBS) \/ Contains(path, S_SEARCHJOBS)

\* a career/job directory, or the search marker, in the path
HasDirMarker(path) ==
    Contains(path, S_CAREERS_DIR) \/ Contains(path, S_JOBS_DIR) \/ Contains(path, S_SEARCHJOBS)

NoNonJobPattern(path, title) ==
    \A pattern \in RSS_NON_JOB_PATH_PATTERNS :
        ~Contains(path, pattern) /\ ~Contains(title, pattern)

TenantMarkerUrl(p) == IsTenantHost(Lower(p.netloc)) /\ HasMarker(Lower(p.path))

VendorMarkerUrl(p) == Lower(p.netloc) \in VENDOR_HOSTS /\ HasMarker(Lower(p.path))

NoNonJobPatternIn(p, title) == NoNonJobPattern(Lower(p.path), Lower(title))

\* C7, as stated: the filter accepts every URL on a tenant career subdomain whose
\* path contains a career/job marker, whatever the title and the rest of the path.
C7_TenantMarkerAccepted ==
    Answered("is_likely_job_posting") /\ TenantMarkerUrl(urlparse(call.url)) => ret = "True"

\* C7, amended: the filter accepts every URL on a tenant career subdomain whose
\* path contains a career/job marker, provided neither the lower-cased path nor
\* the lower-cased title contains a non-job pattern.
C7_TenantMarkerAcceptedUnlessNonJob ==
    /\ Answered("is_likely_job_posting")
    /\ TenantMarkerUrl(urlparse(call.url))
    /\ NoNonJobPatternIn(urlparse(call.url), call.title)
    => ret = "True"

\* a tenant URL only the tenant rule accepts: a marker, but in no "/careers", "/jobs"
C7_Witness ==
    /\ Answered("is_likely_job_posting")
    /\ TenantMarkerUrl(urlparse(call.url))
    /\ NoNonJobPatternIn(urlparse(call.url), call.title)
    /\ ~ClearJobPath(Lower(urlparse(call.url).path))
    /\ ret = "True"

\* C8, as stated: on the vendor's marketing host a path with a career/job marker
\* anywhere and no non-job pattern is accepted; rule 3 rejects only a path with
\* no marker at all.
C8_VendorMarkerAccepted ==
    /\ Answered("is_likely_job_posting")
    /\ VendorMarkerUrl(urlparse(call.url))
    /\ NoNonJobPatternIn(urlparse(call.url), call.title)
    => ret = "True"

VendorUrlDecided(p, title, r) ==
    Lower(p.netloc) \in VENDOR_HOSTS =>
        /\ ~HasDirMarker(Lower(p.path)) => r = "False"
        /\ HasDirMarker(Lower(p.path)) /\ NoNonJobPatternIn(p, title) => r = "True"

\* C8, amended: on the vendor's marketing host the filter rejects every path
\* that contains none of "/careers/", "/jobs/" and "searchjobs" (so also a path
\* that is "/careers" or "/jobs" or ends in one of them), and accepts a path
\* that contains one of the three when neither the path nor the title contains
\* a non-job pattern.
C8_VendorNeedsDirMarker ==
    Answered("is_likely_job_posting") => VendorUrlDecided(urlparse(call.url), call.title, ret)

\* a vendor URL with a marker that is rejected for want of a directory marker
C8_Witness ==
    /\ Answered("is_likely_job_posting")
    /\ VendorMarkerUrl(urlparse(call.url))
    /\ NoNonJobPatternIn(urlparse(call.url), call.title)
    /\ ~HasDirMarker(Lower(urlparse(call.url).path))
    /\ ret = "False"

\* a job-detail keyword in the path or a job-id parameter in the query
HasDetailMarker(p) ==
    Contains(Lower(p.path), S_JOBDETAIL) \/ Contains(Lower(p.query), S_JOBID_PARAM)

\* C9: a URL whose path or query carries a job-detail marker is no listing,
\* whatever its depth and whatever else its path mentions.
C9_DetailMarkerNotListing ==
    /\ Answered("is_listing_page")
    /\ urlparse(call.url).ok
    /\ HasDetailMarker(urlparse(call.url))
    => ret = "False"

\* C10: each classifier returns a boolean for every input and raises nothing,
\* and a URL the parser cannot parse is none of hub, job page and listing.
C10_ClassifiersTotal ==
    call.fn \in Classifiers /\ ret # "" =>
        /\ ret \in {"True", "False"}
        /\ ~urlparse(call.url).ok => ret = "False"

-----------------------------------------------------------------------------
(* The end-to-end scenario: one hub, whose feed has a job item and a blog  *)
(* item, and the job's detail URL given as a link of its own.  The hub is  *)
(* on the host of the detail URL or on another one; the detail page is any *)
(* page of the model.                                                      *)

E2EFeed ==
    <<[title |-> "Engineer", link |-> U_job, description |-> <<>>,
       pubDate |-> "d1", guid |-> ""],
      [title |-> "Hiring blog", link |-> U_blog, description |-> <<"a">>,
       pubDate |-> "d1", guid |-> ""]>>

E2EConfigs ==
    [links : {<<U_hub, U_job>>, <<U_hub2, U_job>>}, fetch_rss : {TRUE},
     fetch_job_pages : {TRUE}, max_job_pages : {1, 500}]

InitE2E ==
    /\ call = NoCall
    /\ ret = ""
    /\ pc = "start"
    /\ \E c \in E2EConfigs : InitRun(c, [AnyWeb EXCEPT !.feeds = {E2EFeed}])

NextE2E ==
    \/ Start
    \/ RssProbe
    \/ RssAdd
    \/ RssNextHub
    \/ FetchPage
    \/ Enrich
    \/ Write

SpecE2E == InitE2E /\ [][NextE2E]_vars

-----------------------------------------------------------------------------
(* The claims about the corpus. *)

Keys(jobs) == {KeyOf(jobs[i]) : i \in 1..Len(jobs)}

\* C1: in every reachable state of run_extraction no two records of all_jobs have
\* the same (source_site, application_url) pair.
C1_UniqueKeys ==
    \A i, j \in 1..Len(all_jobs) : KeyOf(all_jobs[i]) = KeyOf(all_jobs[j]) => i = j

\* a record whose identity was in the corpus has been handed to add_job, and the
\* corpus holds several records
C1_Witness ==
    /\ ev.op = "add_job"
    /\ ev.known
    /\ KeyOf(ev.job) \in Keys(all_jobs)
    /\ Len(all_jobs) >= 2

\* the merge the specification describes
MergedRecord(old, new) ==
    [old EXCEPT
        !.job_description =
            IF Len(new.job_description) > Len(@) THEN new.job_description ELSE @,
        !.metadata = DictUnion(@, new.metadata)]

RepeatMerged(jobs, jobs2, job) ==
    /\ Len(jobs2) = Len(jobs)
    /\ \A i \in 1..Len(jobs) :
          jobs2[i] = IF KeyOf(jobs[i]) = KeyOf(job) THEN MergedRecord(jobs[i], job) ELSE jobs[i]

\* C2: whenever a record whose identity is already in the corpus is admitted, in
\* any phase, the stored record is merged with it: the description is replaced if
\* and only if the new one is strictly longer, and the metadata becomes the union
\* of the old and the new keys, the new values winning.
C2_RepeatIdentityMerges ==
    [][ev'.op # "none" /\ KeyOf(ev'.job) \in Keys(all_jobs)
            => RepeatMerged(all_jobs, all_jobs', ev'.job)]_vars

DescriptionKept(jobs, jobs2, e) ==
    \A i \in 1..Len(jobs) :
        /\ i <= Len(jobs2)
        /\ KeyOf(jobs2[i]) = KeyOf(jobs[i])
        /\ Len(jobs2[i].job_description) >= Len(jobs[i].job_description)
        /\ (/\ e.op # "none"
            /\ KeyOf(e.job) = KeyOf(jobs[i])
            /\ Len(e.job.job_description) <= Len(jobs[i].job_description))
           => jobs2[i].job_description = jobs[i].job_description

\* C3: for every identity in the corpus the length of the stored description
\* never decreases in a step of the run, and a step in which the identity is seen
\* again with a shorter or equally long description leaves the stored description
\* as it is.
C3_DescriptionNeverShrinks == [][DescriptionKept(all_jobs, all_jobs', ev')]_vars

\* the merge has met a stored description longer than the one it brought
C3_Witness ==
    /\ ev.op = "merge"
    /\ ev.job.job_description # <<>>
    /\ \E i \in 1..Len(all_jobs) :
          /\ KeyOf(all_jobs[i]) = KeyOf(ev.job)
          /\ Len(all_jobs[i].job_description) > Len(ev.job.job_description)

\* job is stored, field for field
Stored(jobs, job) ==
    \E i \in 1..Len(jobs) : jobs[i] = Stamp(job, jobs[i].extracted_at)

\* C4: handing the same record to add_job twice in a row leaves the corpus after
\* the second call as it was after the first, and so does handing to add_job or
\* to the enrichment merge a record equal to the stored one: the same records
\* with the same field values, extracted_at included.
C4_SecondAdmissionChangesNothing ==
    [][/\ (ev.op = "add_job" /\ ev'.op = "add_job" /\ ev'.job = ev.job)
            => all_jobs' = all_jobs
       /\ (ev'.op # "none" /\ Stored(all_jobs, ev'.job)) => all_jobs' = all_jobs]_vars

\* a record equal to the stored one has been handed in once more
C4_Witness ==
    /\ ev.op = "add_job"
    /\ ev.known
    /\ Stored(all_jobs, ev.job)

PassedFilter(r) == PostingOf[r.application_url][r.job_title] = "True"

OnVendorHost(r) == Lower(Chars(NetlocOf[r.application_url])) \in VENDOR_HOSTS

BlogUrl(r) ==
    \/ Contains(Chars(r.application_url), S_BLOGS_DIR)
    \/ Contains(Chars(r.application_url), S_BLOG_DIR)

\* C5, as stated: every record of all_jobs, in every state, passes the filter:
\* is_likely_job_posting is true of its application_url and job_title.
C5_EveryRecordPassedFilter ==
    \A i \in 1..Len(all_jobs) : PassedFilter(all_jobs[i])

\* C5, amended: every record of all_jobs, in every state, passes the filter or
\* has an application_url whose host is not the vendor's own (www.avature.net or
\* avature.net), and no record's application_url contains "/blogs/" or "/blog/".
C5_FilterOrOtherHost ==
    \A i \in 1..Len(all_jobs) :
        /\ PassedFilter(all_jobs[i]) \/ ~OnVendorHost(all_jobs[i])
        /\ ~BlogUrl(all_jobs[i])

\* a record that does not pass the filter is in the corpus
C5_Witness ==
    \E i \in 1..Len(all_jobs) : ~PassedFilter(all_jobs[i]) /\ ~OnVendorHost(all_jobs[i])

\* the records of the scenario's job: those for its URL and those read from its page
JobRecords(jobs) ==
    {i \in 1..Len(jobs) : jobs[i].application_url = U_job \/ jobs[i].source_url = U_job}

FeedRead(jobs) == \E i \in 1..Len(jobs) : "source_feed" \in DOMAIN jobs[i].metadata

\* C6: in the end-to-end scenario, once the hub's feed has been read, the final
\* corpus holds exactly one record for the job and none for the blog item,
\* whatever the detail page returns and whatever the hub's host.
C6_OneRecordForTheJob ==
    pc = "done" /\ FeedRead(all_jobs) =>
        /\ Cardinality(JobRecords(all_jobs)) = 1
        /\ \A i \in 1..Len(all_jobs) : all_jobs[i].application_url # U_blog

-----------------------------------------------------------------------------
(* The claims about failures, extraction and the limits of a run. *)

\* C11: no failure while one input URL is processed aborts the batch: whatever
\* the links and whatever fails (a request, a status, a feed, the parsing of a
\* URL), no exception leaves run_extraction.
C11_NoFailureAborts == pc # "raised"

-----------------------------------------------------------------------------
(* extract_job_from_html called on its own: one call, on one URL and one   *)
(* page, and what it returns in ret (<<>> for None).                       *)

ExtractUrls == {U_job, U_other}

\* the statuses (0: the request raises) and the findings of the selector chains
ExtractPages ==
    [status : {200, 404, 0}, title : {"", "Engineer"}, description : {<<>>, <<"a">>},
     apply_href : {"", U_apply}, location : {"", "NYC"}, date_posted : {"", "d2"}]

InitExtract ==
    /\ call \in [fn : {"extract_job_from_html"}, url : ExtractUrls, page : ExtractPages]
    /\ ret = <<>>
    /\ pc = "idle"
    /\ InitRun(NoConfig, AnyWeb)

CallExtract ==
    /\ call.fn = "extract_job_from_html"
    /\ pc = "idle"
    /\ ret' = extract_job_from_html(call.url, call.page)
    /\ pc' = "returned"
    /\ UNCHANGED <<call, cfg, web, idx, probe, pending, job_links, hubs, job_page_urls,
                   to_fetch, to_enrich, all_jobs, seen_keys, now, ev, fetches, expanded, served,
                   last_req>>

NextExtract == CallExtract

SpecExtract == InitExtract /\ [][NextExtract]_vars

\* the request failed, or the page has neither a title nor a description
NothingToExtract(page) ==
    page.status # 200 \/ (page.title = "" /\ page.description = <<>>)

\* a record without a title of its own and without a description
EmptyShell(job) ==
    job.job_title \in {"", "Untitled"} /\ job.job_description = <<>>

-----------------------------------------------------------------------------
(* run_extraction on one listing page with more detail links than the cap. *)

\* the site serves the long listing (or no link at all) and every detail page
\* has only a description
ListingWeb ==
    [live |-> {}, feeds |-> {<<>>},
     pages |-> {[status |-> 200, title |-> "", description |-> <<"a">>, apply_href |-> "",
                 location |-> "", date_posted |-> "d2"]},
     listings |-> {<<>>, LongListing}]

ListingConfigs ==
    [links : {<<U_search>>}, fetch_rss : {FALSE}, fetch_job_pages : {TRUE},
     max_job_pages : {1, 500}]

InitListing ==
    /\ call = NoCall
    /\ ret = ""
    /\ pc = "start"
    /\ \E c \in ListingConfigs : InitRun(c, ListingWeb)

NextListing ==
    \/ Start
    \/ FetchListing
    \/ ExpandLink
    \/ Write

SpecListing == InitListing /\ [][NextListing]_vars

\* C13: for every listing page, whatever the number of detail links found on it,
\* the number of detail links expanded for it (the detail pages fetched through
\* extract_job_from_html) is at most the cap of 100.
C13_ExpansionCapped == expanded <= LISTING_CAP /\ Len(job_links) <= LISTING_CAP - expanded

\* the listing has more links than the cap and its expansion is over
C13_Witness ==
    /\ \E found \in web.listings : Len(found) > LISTING_CAP
    /\ pc = "done"
    /\ expanded = LISTING_CAP

-----------------------------------------------------------------------------
(* run_extraction on sites whose pages may have an apply link that is no    *)
(* http(s) URL and whose feed may have an item without a title.            *)

EdgeWeb ==
    [AnyWeb EXCEPT
        !.pages =
            PagePool \cup {[status |-> 200, title |-> "Engineer", description |-> <<"a">>,
                            apply_href |-> U_mailto, location |-> "", date_posted |-> ""]},
        !.feeds =
            FeedDocs \cup {<<[title |-> "", link |-> U_job, description |-> <<>>,
                              pubDate |-> "", guid |-> "g1"]>>}]

EdgeConfigs ==
    [links : {<<U_job>>, <<U_hub, U_job>>, <<U_search>>}, fetch_rss : BOOLEAN,
     fetch_job_pages : {TRUE}, max_job_pages : {1, 500}]

InitEdge ==
    /\ call = NoCall
    /\ ret = ""
    /\ pc = "start"
    /\ \E c \in EdgeConfigs : InitRun(c, EdgeWeb)

SpecEdge == InitEdge /\ [][Next]_vars

-----------------------------------------------------------------------------
(* The claims about the fields of the records. *)

\* a URL with a scheme and a host
AbsoluteUrl(p) == p.scheme # <<>> /\ p.netloc # <<>>

\* C14: every record in the corpus has an application_url that is an absolute
\* URL (scheme and host present), whether it comes from a feed item's link or
\* guid, from a page's apply link or from the page's own URL.
C14_ApplicationUrlAbsolute ==
    \A i \in 1..Len(all_jobs) : AbsoluteUrl(urlparse(Chars(all_jobs[i].application_url)))

TitlesNonEmpty ==
    /\ \A i \in 1..Len(all_jobs) : all_jobs[i].job_title # ""
    /\ \A i \in 1..Len(job_links) : job_links[i][2] # ""

\* the step from pc = "expand" is the expansion of one detail link
CardTitleUsed ==
    (pc = "expand" /\ ev'.op = "add_job") => ev'.job.job_title \notin {"", "Untitled"}

\* C15: every record in the corpus, in every reachable state, has a non-empty
\* job_title: a feed item or a page without a title gets "Untitled", and a
\* listing-expanded record whose title is missing or "Untitled" gets the card's
\* anchor text, which is never empty.
C15_TitleNonEmpty == []TitlesNonEmpty /\ [][CardTitleUsed]_vars

\* a feed item without a title was admitted as "Untitled" and a detail page
\* without a title under its card's text
C15_Witness ==
    /\ \E i \in 1..Len(all_jobs) :
          /\ "source_feed" \in DOMAIN all_jobs[i].metadata
          /\ all_jobs[i].job_title = "Untitled"
    /\ ev.op = "add_job"
    /\ ev.job.job_title = "Senior Dev"
    /\ ~ev.known

-----------------------------------------------------------------------------
(* The claims about the phases of a run. *)

\* C16: max_job_pages is the maximum number of job pages fetched: in every run
\* the total number of HTML page fetches (single pages, listing pages, expanded
\* detail pages and enrichment fetches together) is at most max_job_pages.
C16_FetchesWithinMax == fetches <= cfg.max_job_pages

\* C17: every input URL classified as career hub is also scanned as a possible
\* listing page: when page fetching is enabled and the URL is within the
\* max_job_pages limit, each hub URL is fetched in the page phase, besides
\* having its feeds fetched.
C17_HubsScannedAsListing ==
    (pc = "done" /\ cfg.fetch_job_pages /\ Len(cfg.links) <= cfg.max_job_pages) =>
        \A i \in 1..Len(hubs) : hubs[i] \in Range(to_fetch)

\* C18: fetch_rss_jobs probes the feed paths in the fixed order and stops at the
\* first path that answers with status 200 and parses as a well-formed feed: no
\* later path is requested after such a path, also when that feed has no item
\* or no item that passes the filter.  (pc = "rss" is the state before the
\* request of the next path of the current hub.)
C18_StopsAtFirstFeed == ~(served /\ pc = "rss")

-----------------------------------------------------------------------------
(* The selector chains of extract_job_from_html.  A chain loops over its    *)
(* selectors and skips those that select no element, so its input is the    *)
(* texts of the elements that the selectors do select, in selector order    *)
(* (matched).  A title is a string; a description or body text, of which    *)
(* the code reads the length, is the first len characters of a source src.  *)

MaxMatches == 3

\* the description must be longer than this to end the loop
MIN_DESCRIPTION == 100

\* the body text is cut to this length
MAX_BODY == 15000

NoText == [src |-> "", len |-> 0]

\* lines 329-335: the first selected element's text, whatever it is, and the
\* document title when that text is empty
title_chain(matched, doc_title) ==
    LET title == IF matched = <<>> THEN "" ELSE Head(matched)
    IN  IF title = "" THEN doc_title ELSE title

\* lines 338-356: every selected element's text replaces the description,
\* and one longer than MIN_DESCRIPTION ends the loop
RECURSIVE description_loop(_, _)
description_loop(matched, description) ==
    IF matched = <<>> THEN description
    ELSE IF Head(matched).len > MIN_DESCRIPTION THEN Head(matched)
    ELSE description_loop(Tail(matched), Head(matched))

\* html_to_clean_text(body)[:15000], nothing without a body element
BodyText(body) ==
    IF body = <<>> THEN NoText ELSE [body[1] EXCEPT !.len = Min(body[1].len, MAX_BODY)]

\* lines 357-360: the body text only when the description is empty
description_fallback(description, body) ==
    IF description.len = 0 THEN BodyText(body) ELSE description

description_chain(matched, body) ==
    description_fallback(description_loop(matched, NoText), body)

TitleTexts == {"", "Engineer", "Lead"}

DocTitles == {"", "Doc"}

ContainerTexts ==
    {NoText, [src |-> "summary", len |-> 50], [src |-> "teaser", len |-> 100],
     [src |-> "details", len |-> 101]}

Bodies ==
    {<<>>, <<NoText>>, <<[src |-> "body", len |-> 60]>>, <<[src |-> "body", len |-> 15001]>>}

InitChains ==
    /\ \/ call \in [fn : {"title_chain"}, matched : SeqsUpTo(TitleTexts, MaxMatches),
                    doc_title : DocTitles]
       \/ call \in [fn : {"description_chain"}, matched : SeqsUpTo(ContainerTexts, MaxMatches),
                    body : Bodies]
    /\ ret = <<>>
    /\ pc = "idle"
    /\ InitRun(NoConfig, AnyWeb)

CallTitleChain ==
    /\ call.fn = "title_chain"
    /\ pc = "idle"
    /\ ret' = <<title_chain(call.matched, call.doc_title)>>
    /\ pc' = "returned"
    /\ UNCHANGED <<call, cfg, web, idx, probe, pending, job_links, hubs, job_page_urls,
                   to_fetch, to_enrich, all_jobs, seen_keys, now, ev, fetches, expanded, served,
                   last_req>>

CallDescriptionChain ==
    /\ call.fn = "description_chain"
    /\ pc = "idle"
    /\ ret' = <<description_chain(call.matched, call.body)>>
    /\ pc' = "returned"
    /\ UNCHANGED <<call, cfg, web, idx, probe, pending, job_links, hubs, job_page_urls,
                   to_fetch, to_enrich, all_jobs, seen_keys, now, ev, fetches, expanded, served,
                   last_req>>

NextChains ==
    \/ CallTitleChain
    \/ CallDescriptionChain

SpecChains == InitChains /\ [][NextChains]_vars

\* the texts of matched that are not empty
NonEmptyTitles(matched) == SelectSeq(matched, LAMBDA t : t # "")

\* C19: title extraction walks the ordered selector list until one selector
\* yields non-empty text and uses that text; the document title is used only
\* when no selector yields non-empty text.
C19_TitleFirstNonEmpty ==
    (pc = "returned" /\ call.fn = "title_chain") =>
        ret[1] = IF NonEmptyTitles(call.matched) # <<>>
                 THEN Head(NonEmptyTitles(call.matched))
                 ELSE call.doc_title

\* the texts of matched that are longer than the threshold
LongTexts(matched) == SelectSeq(matched, LAMBDA t : t.len > MIN_DESCRIPTION)

\* C20: description extraction accepts the first container whose text is
\* longer than the threshold of 100 characters; if no container's text exceeds
\* it, the description is the body text cut to 15000 characters, not the text
\* of a below-threshold container.
C20_DescriptionFirstLongOrBody ==
    (pc = "returned" /\ call.fn = "description_chain") =>
        ret[1] = IF LongTexts(call.matched) # <<>>
                 THEN Head(LongTexts(call.matched))
                 ELSE BodyText(call.body)

\* the URL that the step from this state requests, "" when it requests none
RequestNext ==
    CASE pc = "rss" -> FeedUrl(hubs[idx], FEED_PATHS[probe])
      [] pc = "pages" -> to_fetch[idx]
      [] pc = "expand" -> Head(job_links)[1]
      [] pc = "enrich" -> to_enrich[idx]
      [] OTHER -> ""

SameOrigin(p, q) == Origin(p) = Origin(q)

\* C21: between any two successive network requests of a run to the same
\* origin a delay step occurs: no execution issues two requests back to back,
\* including after a non-success status, after an exception, and between a
\* listing fetch and the first fetch that follows it.
C21_DelayBetweenRequests ==
    (last_req # "" /\ RequestNext # "") =>
        ~SameOrigin(urlparse(Chars(last_req)), urlparse(Chars(RequestNext)))

\* jobs2 is jobs but for the description and the metadata of the record with
\* job's identity
MergeFrame(jobs, jobs2, job) ==
    /\ Len(jobs2) = Len(jobs)
    /\ \A i \in 1..Len(jobs) :
          IF KeyOf(jobs[i]) = KeyOf(job)
          THEN jobs2[i] = [jobs[i] EXCEPT !.job_description = jobs2[i].job_description,
                                          !.metadata = jobs2[i].metadata]
          ELSE jobs2[i] = jobs[i]

\* C22: an enrichment merge into an existing record changes only that record's
\* job_description and metadata: its job_title, application_url, source_site,
\* source_url and extracted_at are unchanged, every other record of the corpus
\* is unchanged, and the number of records is unchanged.
C22_MergeFrame ==
    [][ev'.op = "merge" => MergeFrame(all_jobs, all_jobs', ev'.job) /\ seen_keys' = seen_keys]_vars

\* a merge has changed a record of a corpus of several records: the feed record
\* now has the page's metadata, under a title that is not the page's
C22_Witness ==
    /\ ev.op = "merge"
    /\ Len(all_jobs) >= 2
    /\ \E i \in 1..Len(all_jobs) :
          /\ KeyOf(all_jobs[i]) = KeyOf(ev.job)
          /\ {"source_feed", "source_page"} \subseteq DOMAIN all_jobs[i].metadata
          /\ all_jobs[i].job_title # ev.job.job_title

-----------------------------------------------------------------------------
(* Termination.  Every step of a run is a bounded computation or a request  *)
(* with a timeout, so a run that can take a step does take one.             *)

SpecFair == Init /\ [][Next]_vars /\ WF_vars(Next)

\* the run is over: it has written, found no links, or left with an exception
Over == pc \in {"done", "no_links", "raised"}

\* C23: every run of run_extraction terminates and reaches the write step,
\* provided each network request returns or fails within its timeout: each
\* phase iterates a finite list fixed before its loop starts, so records
\* admitted during the enrichment phase never extend the enrichment loop.
\* (A run without links ends at once and has nothing to write; the claim is
\* read for the runs that have links.)
C23_ReachesWrite ==
    /\ cfg.links # <<>> => <>(pc = "done")
    /\ [][(pc = "enrich" /\ pc' = "enrich") => to_enrich' = to_enrich]_vars

\* what does hold: every run comes to an end, and the enrichment list is fixed
Terminates ==
    /\ <>Over
    /\ [][(pc = "enrich" /\ pc' = "enrich") => to_enrich' = to_enrich]_vars
====
